---- MODULE Spec2Model ----
(***************************************************************************)
(* Screening layer of the company scraper: the investment scorer, the MSP  *)
(* likelihood classifier, the thesis matcher, the multi-year trend         *)
(* calculator and the extraction run that persists annual financial data.  *)
(*                                                                         *)
(* Conventions.  Time is counted in days.  JavaScript numbers are modelled *)
(* as exact rationals [n, d] (d > 0, lowest terms); floating-point         *)
(* rounding error is not modelled.  An optional/nullable number is one of  *)
(* Undef (the property is absent), Null, or Num(v).  Distances are in      *)
(* metres.                                                                 *)
(***************************************************************************)
EXTENDS Integers, Sequences, FiniteSets, TLC

VARIABLES
    now,        \* Date.now(), in days
    company,    \* the company record (as persisted / as passed to a function)
    docs,       \* transaction ids of the account PDFs in the documents directory
    result      \* what the last operation returned

vars == <<now, company, docs, result>>

-----------------------------------------------------------------------------
(* JavaScript values *)

Undef == [k |-> "undefined"]
Null == [k |-> "null"]
Num(v) == [k |-> "number", v |-> v]

IsNum(x) == x.k = "number"

\* JavaScript truthiness of an optional number: undefined, null and 0 are falsy.
Truthy(x) == IsNum(x) /\ x.v # 0

\* a || b on optional numbers.
OrElse(a, b) == IF Truthy(a) THEN a ELSE b

Str(s) == [k |-> "string", v |-> s]
NaN == [k |-> "NaN"]
IsStr(x) == x.k = "string"

-----------------------------------------------------------------------------
(* Exact rational arithmetic *)

Abs(i) == IF i < 0 THEN -i ELSE i

RECURSIVE GCD(_, _)
GCD(a, b) == IF b = 0 THEN a ELSE GCD(b, a % b)

\* The rational n/d in lowest terms, d > 0.
Rat(n, d) ==
    LET s == IF d < 0 THEN -1 ELSE 1
        g == GCD(Abs(n), Abs(d))
    IN  [n |-> (s * n) \div g, d |-> (s * d) \div g]

RInt(i) == [n |-> i, d |-> 1]
RAdd(a, b) == Rat(a.n * b.d + b.n * a.d, a.d * b.d)
RSub(a, b) == Rat(a.n * b.d - b.n * a.d, a.d * b.d)
RMul(a, b) == Rat(a.n * b.n, a.d * b.d)
RLeq(a, b) == a.n * b.d <= b.n * a.d
RLt(a, b) == a.n * b.d < b.n * a.d
RMin(a, b) == IF RLeq(a, b) THEN a ELSE b
RMax(a, b) == IF RLeq(a, b) THEN b ELSE a

\* Math.round(x * 100) / 100: to 2 decimals, halves rounded towards +infinity.
Round2(x) ==
    LET whole == x.n \div x.d
        rem == x.n % x.d
        cents == (rem * 100) \div x.d
        left == (rem * 100) % x.d
    IN  Rat(whole * 100 + cents + (IF 2 * left >= x.d THEN 1 ELSE 0), 100)

\* Math.round(x): to the nearest integer, halves rounded towards +infinity.
Round0(x) ==
    LET whole == x.n \div x.d
        rem == x.n % x.d
    IN  whole + (IF 2 * rem >= x.d THEN 1 ELSE 0)

-----------------------------------------------------------------------------
(* Strings *)

LowerCaseLetter ==
    [c \in {"A", "B", "C", "D", "E", "F", "G", "H", "I", "J", "K", "L", "M",
            "N", "O", "P", "Q", "R", "S", "T", "U", "V", "W", "X", "Y", "Z"} |->
        CASE c = "A" -> "a" [] c = "B" -> "b" [] c = "C" -> "c" [] c = "D" -> "d"
          [] c = "E" -> "e" [] c = "F" -> "f" [] c = "G" -> "g" [] c = "H" -> "h"
          [] c = "I" -> "i" [] c = "J" -> "j" [] c = "K" -> "k" [] c = "L" -> "l"
          [] c = "M" -> "m" [] c = "N" -> "n" [] c = "O" -> "o" [] c = "P" -> "p"
          [] c = "Q" -> "q" [] c = "R" -> "r" [] c = "S" -> "s" [] c = "T" -> "t"
          [] c = "U" -> "u" [] c = "V" -> "v" [] c = "W" -> "w" [] c = "X" -> "x"
          [] c = "Y" -> "y" [] c = "Z" -> "z"]

LowerOf(c) == IF c \in DOMAIN LowerCaseLetter THEN LowerCaseLetter[c] ELSE c

\* String.prototype.toLowerCase (ASCII letters).
RECURSIVE toLowerCase(_)
toLowerCase(s) ==
    IF Len(s) = 0 THEN ""
    ELSE IF Len(s) = 1 THEN LowerOf(s)
    ELSE LET half == Len(s) \div 2
         IN  toLowerCase(SubSeq(s, 1, half)) \o toLowerCase(SubSeq(s, half + 1, Len(s)))

\* String.prototype.includes: k occurs in s as a substring.
includes(s, k) ==
    \E i \in 1..(Len(s) - Len(k) + 1) : SubSeq(s, i, i + Len(k) - 1) = k

\* String.prototype.startsWith.
startsWith(s, k) == Len(k) <= Len(s) /\ SubSeq(s, 1, Len(k)) = k

\* Array.prototype.join(' ') on an array of strings.
RECURSIVE join(_)
join(a) ==
    IF Len(a) = 0 THEN ""
    ELSE IF Len(a) = 1 THEN a[1]
    ELSE a[1] \o " " \o join(Tail(a))

\* Array.prototype.filter.
filter(a, P(_)) == SelectSeq(a, P)

\* Array.prototype.some.
some(a, P(_)) == \E i \in 1..Len(a) : P(a[i])

\* Array.prototype.slice(0, n).
slice0(a, n) == SubSeq(a, 1, IF Len(a) < n THEN Len(a) ELSE n)

-----------------------------------------------------------------------------
(* Dates.  Time is counted in days since 1970-01-01. *)

DigitValue(c) ==
    CASE c = "0" -> 0 [] c = "1" -> 1 [] c = "2" -> 2 [] c = "3" -> 3 [] c = "4" -> 4
      [] c = "5" -> 5 [] c = "6" -> 6 [] c = "7" -> 7 [] c = "8" -> 8 [] c = "9" -> 9
      [] OTHER -> -1

AllDigits(s) == \A i \in 1..Len(s) : DigitValue(SubSeq(s, i, i)) >= 0

RECURSIVE ParseDigits(_)
ParseDigits(s) ==
    IF Len(s) = 0 THEN 0
    ELSE ParseDigits(SubSeq(s, 1, Len(s) - 1)) * 10 + DigitValue(SubSeq(s, Len(s), Len(s)))

IsLeapYear(y) == (y % 4 = 0 /\ y % 100 # 0) \/ y % 400 = 0

DaysInMonth(y, m) ==
    IF m = 2 THEN (IF IsLeapYear(y) THEN 29 ELSE 28)
    ELSE IF m \in {4, 6, 9, 11} THEN 30 ELSE 31

\* Leap years among the years 1..y.
LeapYearsThrough(y) == y \div 4 - y \div 100 + y \div 400

\* Days of year y that precede its month m.
DaysBeforeMonth(y, m) ==
    <<0, 31, 59, 90, 120, 151, 181, 212, 243, 273, 304, 334>>[m]
        + (IF m > 2 /\ IsLeapYear(y) THEN 1 ELSE 0)

\* Days from 1970-01-01 to the civil date y-m-d.
DaysFromCivil(y, m, d) ==
    (y - 1970) * 365 + LeapYearsThrough(y - 1) - LeapYearsThrough(1969)
        + DaysBeforeMonth(y, m) + d - 1

\* The time of the date y-m-d, NaN when the calendar has no such day.
DateOf(y, m, d) ==
    IF m \in 1..12 /\ d \in 1..DaysInMonth(y, m) THEN Num(DaysFromCivil(y, m, d)) ELSE NaN

\* Date parsing of the text s: YYYY-MM-DD is read, anything else is no date.
DateParse(s) ==
    IF /\ Len(s) = 10
       /\ AllDigits(SubSeq(s, 1, 4)) /\ SubSeq(s, 5, 5) = "-"
       /\ AllDigits(SubSeq(s, 6, 7)) /\ SubSeq(s, 8, 8) = "-"
       /\ AllDigits(SubSeq(s, 9, 10))
    THEN DateOf(ParseDigits(SubSeq(s, 1, 4)), ParseDigits(SubSeq(s, 6, 7)),
                ParseDigits(SubSeq(s, 9, 10)))
    ELSE NaN

\* new Date(value).getTime(), in days: a YYYY-MM-DD string is parsed, an absent
\* value or a string that holds no date gives NaN (Invalid Date).  Other date
\* formats that Date accepts are not modelled.
getTime(value) == IF IsStr(value) THEN DateParse(value.v) ELSE NaN

-----------------------------------------------------------------------------
(* Program constants (config/constants) *)

DAYS_PER_YEAR == 365
MIN_EBITDA == 500000
MAX_EBITDA == 1000000
MIN_REVENUE == 3000000
MAX_REVENUE == 6000000
MIN_EMPLOYEES == 15
MAX_EMPLOYEES == 40
TARGET_SIC_CODES == <<"62020", "62090">>

-----------------------------------------------------------------------------
(* dateHelpers.calculateYearsActive at time t:                              *)
(* (now - new Date(incorporationDate).getTime()) / one year                 *)

\* diff / MILLISECONDS_PER_YEAR, from date.getTime() and Date.now() = t.
YearsBetween(time, t) == IF IsNum(time) THEN Rat(t - time.v, DAYS_PER_YEAR) ELSE NaN

calculateYearsActive(incorporationDate, t) == YearsBetween(getTime(Str(incorporationDate)), t)

-----------------------------------------------------------------------------
(* geocoding.calculateLocationScore; the distance is Null or Num(metres)     *)

\* A plausible slip: the steps taken without their upper end points.
calculateLocationScoreExclusive(distanceKm) ==
    IF distanceKm = Null THEN 0
    ELSE IF distanceKm.v < 25000 THEN 25
    ELSE IF distanceKm.v < 50000 THEN 20
    ELSE IF distanceKm.v < 100000 THEN 15
    ELSE IF distanceKm.v < 150000 THEN 10
    ELSE IF distanceKm.v < 200000 THEN 5
    ELSE 0

calculateLocationScore(distanceKm) ==
    IF distanceKm = Null THEN 0
    ELSE IF distanceKm.v <= 25000 THEN 25
    ELSE IF distanceKm.v <= 50000 THEN 20
    ELSE IF distanceKm.v <= 100000 THEN 15
    ELSE IF distanceKm.v <= 150000 THEN 10
    ELSE IF distanceKm.v <= 200000 THEN 5
    ELSE 0

-----------------------------------------------------------------------------
(* geocoding.getDistanceFromLondon.  An address is Undef or Str(text); a     *)
(* structured address is Undef or a record of six such fields.  fetched is   *)
(* what the geocoding request comes to.                                      *)

Pow10(n) == IF n = 0 THEN 1 ELSE IF n = 1 THEN 10 ELSE IF n = 2 THEN 100
            ELSE IF n = 3 THEN 1000 ELSE 10000

\* The number written as whole.fraction, NaN when that is no decimal number.
Decimal(whole, fraction) ==
    IF Len(whole) > 0 /\ Len(fraction) <= 4 /\ AllDigits(whole) /\ AllDigits(fraction)
    THEN Num(Rat(ParseDigits(whole \o fraction), Pow10(Len(fraction))))
    ELSE NaN

\* The position of the first "." of s, 0 when it has none.
RECURSIVE DotAt(_, _)
DotAt(s, i) ==
    IF i > Len(s) THEN 0 ELSE IF SubSeq(s, i, i) = "." THEN i ELSE DotAt(s, i + 1)

SplitDecimal(s, dot) ==
    IF dot = 0 THEN Decimal(s, "")
    ELSE Decimal(SubSeq(s, 1, dot - 1), SubSeq(s, dot + 1, Len(s)))

Negated(x) == IF IsNum(x) THEN Num(Rat(0 - x.v.n, x.v.d)) ELSE x

\* parseFloat on a signed decimal with up to 4 decimals; any other text gives
\* NaN (numbers followed by other text and exponents are not modelled).
Unsigned(s) == SplitDecimal(s, DotAt(s, 1))

parseFloat(s) ==
    IF startsWith(s, "-") THEN Negated(Unsigned(SubSeq(s, 2, Len(s)))) ELSE Unsigned(s)

isNaN(x) == x = NaN

CENTRAL_LONDON_LAT == Rat(515074, 10000)
CENTRAL_LONDON_LON == Rat(-1278, 10000)

\* The Haversine distance, in metres, for the coordinates the geocoder
\* answers with here: 24.997 km, 25.041 km, 25.097 km and 200.095 km due
\* north of Central London (111.195 km to the degree of latitude).
calculateDistance(lat1, lon1, lat2, lon2) ==
    CASE lat2 = Rat(517322, 10000) /\ lon2 = lon1 -> 24997
      [] lat2 = Rat(517326, 10000) /\ lon2 = lon1 -> 25041
      [] lat2 = Rat(517331, 10000) /\ lon2 = lon1 -> 25097
      [] lat2 = Rat(533069, 10000) /\ lon2 = lon1 -> 200095
      [] lat2 = lat1 /\ lon2 = lon1 -> 0

\* String.prototype.trim (spaces).
RECURSIVE trim(_)
trim(s) ==
    IF Len(s) = 0 THEN ""
    ELSE IF SubSeq(s, 1, 1) = " " THEN trim(SubSeq(s, 2, Len(s)))
    ELSE IF SubSeq(s, Len(s), Len(s)) = " " THEN trim(SubSeq(s, 1, Len(s) - 1))
    ELSE s

\* Truthiness of an optional string: undefined and '' are falsy.
TruthyStr(x) == IsStr(x) /\ x.v # ""

\* parts.join(', ')
RECURSIVE joinComma(_)
joinComma(parts) ==
    IF Len(parts) = 0 THEN ""
    ELSE IF Len(parts) = 1 THEN parts[1].v
    ELSE parts[1].v \o ", " \o joinComma(Tail(parts))

AddressParts(structuredAddress) ==
    SelectSeq(<<structuredAddress.address_line_1, structuredAddress.address_line_2,
                structuredAddress.locality, structuredAddress.postal_code,
                structuredAddress.region, structuredAddress.country>>, TruthyStr)

AddressString(address, structuredAddress) ==
    IF TruthyStr(address) THEN address.v
    ELSE IF structuredAddress # Undef THEN joinComma(AddressParts(structuredAddress))
    ELSE ""

\* An exception raised by a statement.
Thrown == [k |-> "thrown"]

NetworkError == [kind |-> "network error"]
Response(ok, body) == [kind |-> "response", ok |-> ok, body |-> body]
InvalidJson == [k |-> "invalid json"]
JsonNull == [k |-> "json null"]
JsonObject == [k |-> "json object"]
JsonArray(items) == [k |-> "json array", items |-> items]

\* From the parsed coordinates to the distance.
DistanceOf(lat, lon) ==
    IF isNaN(lat) \/ isNaN(lon) THEN Null
    ELSE Num(calculateDistance(CENTRAL_LONDON_LAT, CENTRAL_LONDON_LON, lat.v, lon.v))

\* The statements of the try block: fetch rejects on a network error,
\* response.json() on a body that is no JSON, and data[0].lat raises on a
\* JSON object that has no element 0.
TryGeocode(fetched) ==
    IF fetched.kind = "network error" THEN Thrown
    ELSE IF ~fetched.ok THEN Null
    ELSE IF fetched.body.k = "invalid json" THEN Thrown
    ELSE IF fetched.body.k = "json null" THEN Null
    ELSE IF fetched.body.k = "json object" THEN Thrown
    ELSE IF Len(fetched.body.items) = 0 THEN Null
    ELSE DistanceOf(parseFloat(fetched.body.items[1].lat),
                    parseFloat(fetched.body.items[1].lon))

\* A plausible slip: the exception is passed on.
Rethrow(outcome) == outcome

\* catch (error) { return null; }
Catch(outcome) == IF outcome = Thrown THEN Null ELSE outcome

getDistanceFromLondon(address, structuredAddress, fetched) ==
    IF ~TruthyStr(address) /\ structuredAddress = Undef THEN Null
    ELSE IF trim(AddressString(address, structuredAddress)) = "" THEN Null
    ELSE Catch(TryGeocode(fetched))

-----------------------------------------------------------------------------
(* calculateInvestmentScore *)

microsoftKeywords ==
    <<"microsoft", "azure", "office365", "m365", "sharepoint", "teams", "power", "dynamics">>

IncludesMicrosoftKeyword(lowerCased) ==
    some(microsoftKeywords, LAMBDA keyword : includes(lowerCased, keyword))

\* microsoftKeywords.some(keyword => tech.toLowerCase().includes(keyword))
IsMicrosoftTech(tech) == IncludesMicrosoftKeyword(toLowerCase(tech))

\* Factor 1: Math.min(25, yearsActive * 8.33).
AgeFactorOf(yearsActive) ==
    LET ageScore == RMin(RInt(25), RMul(yearsActive, Rat(833, 100)))
    IN  [factor |-> "Company Age (years)", value |-> yearsActive, weight |-> ageScore]

AgeFactor(c, t) == AgeFactorOf(calculateYearsActive(c.date_of_incorporation, t))

\* A plausible slip: the band taken without its end points.
InRangeExclusive(x, lo, hi) == Truthy(x) /\ x.v > lo /\ x.v < hi

\* value && value >= lo && value <= hi
InRange(x, lo, hi) == Truthy(x) /\ x.v >= lo /\ x.v <= hi

\* A plausible slip: partial credit scaled to the full 25 points.
PartialCreditOf25(x, lo, hi) ==
    IF x.v < lo THEN RMax(RInt(0), RMul(Rat(x.v, lo), RInt(25)))
    ELSE RMax(RInt(0), RSub(RInt(25), RMul(Rat(x.v - hi, hi), RInt(25))))

\* Partial credit of one metric that is outside its band: the branch assigns
\* sizeScore, sizeValue and sizeType.
PartialCredit(x, lo, hi) ==
    IF x.v < lo THEN RMax(RInt(0), RMul(Rat(x.v, lo), RInt(15)))
    ELSE RMax(RInt(0), RSub(RInt(15), RMul(Rat(x.v - hi, hi), RInt(15))))

Assigns(x, lo, hi) == x.v < lo \/ x.v > hi

\* Factor 2: the three bands in the order employees, revenue, EBITDA, then
\* partial credit.  sizeState is [score, value, type].
SizeState(headcount, revenue, ebitda) ==
    LET s0 == [score |-> RInt(0), value |-> 0, type |-> "none"]
        s1 == IF Truthy(headcount) /\ Assigns(headcount, MIN_EMPLOYEES, MAX_EMPLOYEES)
              THEN [score |-> PartialCredit(headcount, MIN_EMPLOYEES, MAX_EMPLOYEES),
                    value |-> headcount.v, type |-> "employees"]
              ELSE s0
        s2 == IF s1.score = RInt(0) /\ Truthy(revenue) /\ Assigns(revenue, MIN_REVENUE, MAX_REVENUE)
              THEN [score |-> PartialCredit(revenue, MIN_REVENUE, MAX_REVENUE),
                    value |-> revenue.v, type |-> "revenue"]
              ELSE s1
        s3 == IF s2.score = RInt(0) /\ Truthy(ebitda) /\ Assigns(ebitda, MIN_EBITDA, MAX_EBITDA)
              THEN [score |-> PartialCredit(ebitda, MIN_EBITDA, MAX_EBITDA),
                    value |-> ebitda.v, type |-> "ebitda"]
              ELSE s2
    IN  IF InRange(headcount, MIN_EMPLOYEES, MAX_EMPLOYEES)
        THEN [score |-> RInt(25), value |-> headcount.v, type |-> "employees"]
        ELSE IF InRange(revenue, MIN_REVENUE, MAX_REVENUE)
        THEN [score |-> RInt(25), value |-> revenue.v, type |-> "revenue"]
        ELSE IF InRange(ebitda, MIN_EBITDA, MAX_EBITDA)
        THEN [score |-> RInt(25), value |-> ebitda.v, type |-> "ebitda"]
        ELSE s3

SizeFactorOf(s) ==
    LET sizeLabel == IF s.type = "employees" THEN "Size (employees)"
                     ELSE IF s.type = "revenue" THEN "Size (revenue)"
                     ELSE IF s.type = "ebitda" THEN "Size (EBITDA)"
                     ELSE "Size"
    IN  [factor |-> sizeLabel, value |-> RInt(s.value), weight |-> s.score]

SizeFactor(c) ==
    SizeFactorOf(SizeState(OrElse(c.financials.employees, c.enrichment.headcount),
                           c.financials.revenue, c.financials.ebitda))

\* Factor 3: Math.min(25, microsoftCount * 8.33).
MicrosoftFactorOf(microsoftCount) ==
    LET microsoftScore == IF microsoftCount > 0
                          THEN RMin(RInt(25), RMul(RInt(microsoftCount), Rat(833, 100)))
                          ELSE RInt(0)
    IN  [factor |-> "Microsoft Stack Alignment", value |-> RInt(microsoftCount),
         weight |-> microsoftScore]

MicrosoftFactor(c) == MicrosoftFactorOf(Len(filter(c.enrichment.tech_stack, IsMicrosoftTech)))

\* A plausible slip: the stored distance tested for truthiness, which takes a
\* stored 0 for no distance.
HasTruthyStoredDistance(c) == Truthy(c.investment_score.location_distance_km)

\* location_distance_km !== undefined && location_distance_km !== null
HasStoredDistance(c) == IsNum(c.investment_score.location_distance_km)

\* The stored distance is used when there is one; geo is what
\* getDistanceFromLondon returns otherwise.
ScoredDistance(c, geo) ==
    IF HasStoredDistance(c)
    THEN c.investment_score.location_distance_km
    ELSE geo

\* Math.round(distance * 10) / 10: the distance in km, to 1 decimal.
RoundedKm(distance) == Rat(Round0(Rat(distance.v, 100)), 10)

\* Factor 4: the step function of the distance; the reported value is the
\* distance in km to 1 decimal, 0 for null.
LocationFactorOf(distance) ==
    [factor |-> "Location (distance from London)",
     value |-> IF distance # Null THEN RoundedKm(distance) ELSE RInt(0),
     weight |-> RInt(calculateLocationScore(distance))]

LocationFactor(c, geo) == LocationFactorOf(ScoredDistance(c, geo))

\* The returned object: the score is the sum of the weights, to 2 decimals.
ScoreOf(factors) ==
    [score |-> Round2(RAdd(RAdd(RAdd(factors[1].weight, factors[2].weight),
                                factors[3].weight), factors[4].weight)),
     factors |-> factors]

calculateInvestmentScore(c, t, geo) ==
    ScoreOf(<<AgeFactor(c, t), SizeFactor(c), MicrosoftFactor(c), LocationFactor(c, geo)>>)

-----------------------------------------------------------------------------
(* matchesThesisCriteria (the detail strings of the criteria are not modelled) *)

\* code.split(' ')[0]: the text before the first space.
RECURSIVE FirstWord(_)
FirstWord(s) ==
    IF Len(s) = 0 \/ SubSeq(s, 1, 1) = " " THEN ""
    ELSE SubSeq(s, 1, 1) \o FirstWord(SubSeq(s, 2, Len(s)))

IsTargetSic(code) ==
    \/ some(TARGET_SIC_CODES, LAMBDA target : FirstWord(code) = target)
    \/ startsWith(code, "62020")
    \/ startsWith(code, "62090")

\* x || 0 on an optional number.
OrZero(x) == IF Truthy(x) THEN x.v ELSE 0

\* A plausible slip: the preferred Microsoft stack gates the verdict too.
ThesisMatchesRequiringMicrosoft(ageMet, activeMet, noInsolvencyMet, hasTargetSic, sizeProfileMet, hasAnyData, hasMicrosoftStack) ==
    /\ ageMet
    /\ activeMet
    /\ noInsolvencyMet
    /\ hasTargetSic
    /\ ~(~sizeProfileMet /\ hasAnyData)
    /\ hasMicrosoftStack

\* let matches = true; each failed gating criterion sets it to false.  The
\* Microsoft stack criterion is reported but does not gate.
ThesisMatches(ageMet, activeMet, noInsolvencyMet, hasTargetSic, sizeProfileMet, hasAnyData, hasMicrosoftStack) ==
    /\ ageMet
    /\ activeMet
    /\ noInsolvencyMet
    /\ hasTargetSic
    /\ ~(~sizeProfileMet /\ hasAnyData)

matchesThesisCriteria(c, t) ==
    LET yearsActive == calculateYearsActive(c.date_of_incorporation, t)
        ageMet == RLeq(RInt(3), yearsActive)
        activeMet == c.company_status = "active"
        noInsolvencyMet == ~c.has_insolvency_history /\ ~c.has_been_liquidated
        hasTargetSic == some(c.sic_codes, IsTargetSic)
        ebitda == OrZero(OrElse(c.financials.ebitda, c.financials.profit))
        revenue == OrZero(c.financials.revenue)
        employees == OrZero(OrElse(c.financials.employees, c.enrichment.headcount))
        ebitdaInRange == ebitda >= MIN_EBITDA /\ ebitda <= MAX_EBITDA
        revenueInRange == revenue >= MIN_REVENUE /\ revenue <= MAX_REVENUE
        employeesInRange == employees >= MIN_EMPLOYEES /\ employees <= MAX_EMPLOYEES
        sizeProfileMet == ebitdaInRange \/ revenueInRange \/ employeesInRange
        hasAnyData == ebitda > 0 \/ revenue > 0 \/ employees > 0
        sizeProfileMetOrNoData == sizeProfileMet \/ ~hasAnyData
        hasMicrosoftStack == some(c.enrichment.tech_stack, IsMicrosoftTech)
        matches == ThesisMatches(ageMet, activeMet, noInsolvencyMet, hasTargetSic,
                                 sizeProfileMet, hasAnyData, hasMicrosoftStack)
    IN  [matches |-> matches,
         criteria |->
            <<[name |-> "Company Age (3+ years)", met |-> ageMet],
              [name |-> "Active Status", met |-> activeMet],
              [name |-> "No Insolvency History", met |-> noInsolvencyMet],
              [name |-> "SIC Code (62020/62090)", met |-> hasTargetSic],
              [name |-> "EBITDA Range", met |-> ebitdaInRange \/ ebitda = 0],
              [name |-> "Revenue Range", met |-> revenueInRange \/ revenue = 0],
              [name |-> "Employee Range (15-40)", met |-> employeesInRange \/ employees = 0],
              [name |-> "Size Profile (EBITDA OR Revenue OR Employees)",
               met |-> sizeProfileMetOrNoData],
              [name |-> "Microsoft Stack (Preferred)", met |-> hasMicrosoftStack]>>]

-----------------------------------------------------------------------------
(* analyzeMSPLikelihood *)

negativeKeywords ==
    <<"software development", "application development", "engineering services",
      "custom software", "software engineering", "digital transformation",
      "digital solutions", "digital commerce", "ui/ux", "mobility engineering",
      "audio visual", "av systems", "stage solutions", "smart building",
      "systems integrator", "master systems integrator", "generative ai",
      "gen ai", "ai/ml", "machine learning">>

mspKeywords ==
    <<"msp", "managed service provider", "managed services",
      "it support", "it services", "it consultancy", "it consulting",
      "managed it", "managed it services", "managed it support",
      "outsourced it", "it outsourcing", "it managed services",
      "helpdesk", "service desk", "it help desk",
      "network support", "infrastructure support", "cloud services",
      "cybersecurity", "cyber security", "it security",
      "remote monitoring", "remote management", "rmm",
      "professional services automation", "psa",
      "endpoint management", "device management">>

mspServices ==
    <<"managed services", "it support", "helpdesk", "service desk",
      "network management", "server management", "cloud management",
      "security monitoring", "backup", "disaster recovery",
      "remote support", "on-site support", "it consultancy",
      "it consulting", "infrastructure management", "endpoint management",
      "patch management", "antivirus management", "email security",
      "firewall management", "vpn", "remote access">>

itInfrastructureTech ==
    <<"microsoft 365", "office 365", "azure", "active directory",
      "windows server", "exchange", "sharepoint", "teams",
      "vmware", "hyper-v", "virtualization", "citrix",
      "cisco", "fortinet", "sonicwall", "palo alto",
      "connectwise", "kaseya", "n-able", "datto",
      "veeam", "acronis", "backup", "disaster recovery",
      "sophos", "symantec", "mcafee", "crowdstrike",
      "sentinelone", "bitdefender", "eset">>

\* The ten case-insensitive description patterns; each is the set of the
\* literal strings its regular expression matches.
mspDescriptionPatterns ==
    <<{"managed service", "managed it service"},
      {"it support"},
      {"helpdesk"},
      {"service desk"},
      {"remote monitoring", "remote management", "remote support"},
      {"outsourced it"},
      {"it outsourcing"},
      {"network management", "network support"},
      {"infrastructure management", "infrastructure support"},
      {"cloud services", "cloud management"}>>

\* keyword.toLowerCase() of every keyword of a list.
LowerCased(keywords) == [i \in 1..Len(keywords) |-> toLowerCase(keywords[i])]

negativeKeywordsLowerCased == LowerCased(negativeKeywords)
mspKeywordsLowerCased == LowerCased(mspKeywords)
mspServicesLowerCased == LowerCased(mspServices)
itInfrastructureTechLowerCased == LowerCased(itInfrastructureTech)

\* keywords.filter(keyword => allText.includes(keyword.toLowerCase()))
FoundKeywords(allText, keywords, lowerCased) ==
    LET hits == filter([i \in 1..Len(keywords) |-> i],
                       LAMBDA i : includes(allText, lowerCased[i]))
    IN  [j \in 1..Len(hits) |-> keywords[hits[j]]]

\* pattern.test(description) for a case-insensitive pattern, from the
\* description in lower case.
PatternTest(pattern, lowerCasedDescription) ==
    \E lit \in pattern : includes(lowerCasedDescription, lit)

AllText(c) ==
    toLowerCase(join(c.enrichment.business_keywords \o c.enrichment.services
                     \o c.enrichment.tech_stack
                     \o <<c.enrichment.business_description, c.company_name>>))

FoundNegativeKeywords(c) ==
    FoundKeywords(AllText(c), negativeKeywords, negativeKeywordsLowerCased)

\* A plausible slip: the penalty without its floor of 0.3 (never below 0).
ContextPenaltyNoFloor(found) ==
    IF found > 0 THEN RMax(RInt(0), RSub(RInt(1), RMul(RInt(found), Rat(2, 10))))
    ELSE RInt(1)

\* found > 0 ? Math.max(0.3, 1 - found * 0.2) : 1.0
ContextPenalty(found) ==
    IF found > 0 THEN RMax(Rat(3, 10), RSub(RInt(1), RMul(RInt(found), Rat(2, 10))))
    ELSE RInt(1)

FoundMspKeywords(c) ==
    FoundKeywords(AllText(c), mspKeywords, mspKeywordsLowerCased)

\* A plausible slip: the penalty left out of the keyword contribution.
KeywordPointsUnpenalised(found, foundNegative) ==
    RMin(RInt(30), RMul(Rat(found, Len(mspKeywords)), RInt(30)))

\* Math.min(30, (found / mspKeywords.length) * 30) * contextPenalty
KeywordPoints(found, foundNegative) ==
    RMul(RMin(RInt(30), RMul(Rat(found, Len(mspKeywords)), RInt(30))),
         ContextPenalty(foundNegative))

MspKeywordScore(c) ==
    KeywordPoints(Len(FoundMspKeywords(c)), Len(FoundNegativeKeywords(c)))

IsMspService(service) ==
    LET lowerCased == toLowerCase(service)
    IN  \E i \in 1..Len(mspServices) : includes(lowerCased, mspServicesLowerCased[i])

FoundServices(c) == filter(c.enrichment.services, IsMspService)

Max1(n) == IF n < 1 THEN 1 ELSE n

\* Math.min(points, (found / Math.max(total, 1)) * points)
SharePoints(found, total, points) ==
    RMin(RInt(points), RMul(Rat(found, Max1(total)), RInt(points)))

ServiceScore(c) == SharePoints(Len(FoundServices(c)), Len(c.enrichment.services), 25)

IsInfraTech(tech) ==
    LET lowerCased == toLowerCase(tech)
    IN  \E i \in 1..Len(itInfrastructureTech) :
            includes(lowerCased, itInfrastructureTechLowerCased[i])

FoundInfraTech(c) == filter(c.enrichment.tech_stack, IsInfraTech)

TechScore(c) == SharePoints(Len(FoundInfraTech(c)), Len(c.enrichment.tech_stack), 20)

DescriptionMatches(c) ==
    LET lowerCased == toLowerCase(c.enrichment.business_description)
    IN  Len(filter(mspDescriptionPatterns, LAMBDA pattern : PatternTest(pattern, lowerCased)))

\* Math.min(15, (descriptionMatches / mspDescriptionPatterns.length) * 15)
DescriptionPoints(descriptionMatches) ==
    RMin(RInt(15), RMul(Rat(descriptionMatches, Len(mspDescriptionPatterns)), RInt(15)))

DescriptionScore(c) == DescriptionPoints(DescriptionMatches(c))

IsItSic(code) == includes(code, "62020") \/ includes(code, "62090")

HasItSic(c) == some(c.sic_codes, IsItSic)

IsSpecializedServices(found) ==
    LET has(k) == some(found, LAMBDA s : includes(toLowerCase(s), k))
    IN  \/ has("backup") /\ ~(has("it support") \/ has("helpdesk"))
        \/ (has("security") \/ has("mdr")) /\ ~(has("infrastructure") \/ has("network management"))

IsSpecializedMSP(c) == IsSpecializedServices(FoundServices(c))

\* The unrounded score: the sum of the five contributions.
RawMspScore(c) ==
    RAdd(RAdd(RAdd(RAdd(MspKeywordScore(c), ServiceScore(c)), TechScore(c)),
              DescriptionScore(c)),
         IF HasItSic(c) THEN RInt(10) ELSE RInt(0))

\* A plausible slip: the comparisons of the score turned around.
ConfidenceReversed(score, contextPenalty, hasNegativeContext) ==
    IF RLeq(score, RInt(30)) THEN "high"
    ELSE IF RLeq(score, RInt(15)) THEN "medium"
    ELSE "low"

\* High: score >= 30; medium: score >= 15 and the penalty is at least 0.6
\* when a negative keyword was found (0.3 otherwise); else low.
Confidence(score, contextPenalty, hasNegativeContext) ==
    LET minContextPenaltyForMedium == IF hasNegativeContext THEN Rat(6, 10) ELSE Rat(3, 10)
    IN  IF RLeq(RInt(30), score) THEN "high"
        ELSE IF RLeq(RInt(15), score) /\ RLeq(minContextPenaltyForMedium, contextPenalty)
        THEN "medium"
        ELSE "low"

analyzeMSPLikelihood(c) ==
    LET foundNegativeKeywords == FoundNegativeKeywords(c)
        contextPenalty == ContextPenalty(Len(foundNegativeKeywords))
        foundMspKeywords == FoundMspKeywords(c)
        foundServices == FoundServices(c)
        foundInfraTech == FoundInfraTech(c)
        descriptionMatches == DescriptionMatches(c)
        hasItSic == HasItSic(c)
        isSpecializedMSP == IsSpecializedServices(foundServices)
        score ==
            RAdd(RAdd(RAdd(RAdd(KeywordPoints(Len(foundMspKeywords),
                                              Len(foundNegativeKeywords)),
                                SharePoints(Len(foundServices), Len(c.enrichment.services), 25)),
                           SharePoints(Len(foundInfraTech), Len(c.enrichment.tech_stack), 20)),
                      DescriptionPoints(descriptionMatches)),
                 IF hasItSic THEN RInt(10) ELSE RInt(0))
    IN  [score |-> Round0(score),
         confidence |-> Confidence(score, contextPenalty, Len(foundNegativeKeywords) > 0),
         indicators |->
            <<[category |-> "Negative Keywords (non-MSP indicators)",
               found |-> Len(foundNegativeKeywords) > 0,
               evidence |-> slice0(foundNegativeKeywords, 5)],
              [category |-> "MSP Keywords",
               found |-> Len(foundMspKeywords) > 0,
               evidence |-> slice0(foundMspKeywords, 5)],
              [category |-> "MSP Services",
               found |-> Len(foundServices) > 0,
               evidence |-> slice0(foundServices, 5)],
              [category |-> "IT Infrastructure Technology",
               found |-> Len(foundInfraTech) > 0,
               evidence |-> slice0(foundInfraTech, 5)],
              [category |-> "Business Description",
               found |-> descriptionMatches > 0,
               evidence |-> IF descriptionMatches > 0
                            THEN <<"Contains MSP-related descriptions">> ELSE <<>>],
              [category |-> "SIC Code (IT Services)",
               found |-> hasItSic,
               evidence |-> IF hasItSic THEN filter(c.sic_codes, IsItSic) ELSE <<>>],
              [category |-> "Specialized MSP (not full-service)",
               found |-> isSpecializedMSP,
               evidence |-> IF isSpecializedMSP
                            THEN <<"Detected as specialized MSP (backup/security only)">>
                            ELSE <<>>]>>]

-----------------------------------------------------------------------------
(* calculateTrends.  An annual record carries period_end (a string, or     *)
(* Undef when absent) and the optional numbers revenue, profit_after_tax,  *)
(* ebitda, ebitda_margin (ratios?.ebitda_margin), recurring_pct            *)
(* (revenue_breakdown?.recurring_revenue_percentage) and average_count     *)
(* (employees?.average_count), and document_source.  A trends object is a  *)
(* record over TrendFields; a field that is not set is Undef.              *)

TrendFields ==
    {"revenue_growth_1y", "profit_growth_1y", "ebitda_growth_1y", "employee_growth_1y",
     "revenue_trend", "profit_trend", "margin_trend",
     "revenue_growth_3y_cagr", "profit_growth_3y_cagr",
     "average_revenue_3y", "average_profit_3y", "average_ebitda_3y",
     "average_ebitda_margin_3y", "average_recurring_revenue_pct_3y"}

EmptyTrends == [f \in TrendFields |-> Undef]

\* The comparator of both sorts, (a, b) => time(b.period_end) - time(a.period_end);
\* a NaN result counts as 0.
TimeDifference(ta, tb) == IF IsNum(ta) /\ IsNum(tb) THEN tb.v - ta.v ELSE 0

ComparePeriods(a, b) == TimeDifference(getTime(a.period_end), getTime(b.period_end))

\* (Math.pow(ratio, 1 / 3) - 1) * 100, kept symbolic in the ratio; Math.pow of a
\* negative base with a fractional exponent is NaN.
Cagr(ratio) == IF ratio.n < 0 THEN NaN ELSE [k |-> "cagr", ratio |-> ratio]

\* Array.prototype.sort with ComparePeriods as Node's engine runs it on an array
\* of fewer than 64 elements: the initial run is counted (and reversed when
\* strictly descending), the other elements are placed by binary insertion.
\* Under a consistent comparator this is the stable sort, most recent first.
RECURSIVE RunEnd(_, _, _)
RunEnd(a, idx, isDescending) ==
    IF idx >= Len(a) THEN idx
    ELSE LET order == ComparePeriods(a[idx + 1], a[idx])
         IN  IF (isDescending /\ order >= 0) \/ (~isDescending /\ order < 0) THEN idx
             ELSE RunEnd(a, idx + 1, isDescending)

Reverse(a) == [i \in 1..Len(a) |-> a[Len(a) + 1 - i]]

RECURSIVE InsertionPoint(_, _, _, _)
InsertionPoint(a, pivot, left, right) ==
    IF left >= right THEN left
    ELSE LET mid == left + (right - left) \div 2
         IN  IF ComparePeriods(pivot, a[mid]) < 0
             THEN InsertionPoint(a, pivot, left, mid)
             ELSE InsertionPoint(a, pivot, mid + 1, right)

RECURSIVE BinaryInsertionSort(_, _)
BinaryInsertionSort(a, start) ==
    IF start > Len(a) THEN a
    ELSE LET pivot == a[start]
             at == InsertionPoint(a, pivot, 1, start)
         IN  BinaryInsertionSort(SubSeq(a, 1, at - 1) \o <<pivot>> \o SubSeq(a, at, start - 1)
                                     \o SubSeq(a, start + 1, Len(a)),
                                 start + 1)

SortDesc(a) ==
    IF Len(a) < 2 THEN a
    ELSE LET isDescending == ComparePeriods(a[2], a[1]) < 0
             runLength == RunEnd(a, 2, isDescending)
             run == SubSeq(a, 1, runLength)
         IN  BinaryInsertionSort((IF isDescending THEN Reverse(run) ELSE run)
                                     \o SubSeq(a, runLength + 1, Len(a)),
                                 runLength + 1)

\* ((latest - previous) / previous) * 100 when both are truthy.
Growth1y(latest, previous) ==
    IF Truthy(latest) /\ Truthy(previous)
    THEN Num(Rat((latest.v - previous.v) * 100, previous.v))
    ELSE Undef

\* growth > 5 ? 'growing' : growth < -5 ? 'declining' : 'stable'
Direction(growth) ==
    IF growth = Undef THEN Undef
    ELSE IF RLt(RInt(5), growth.v) THEN Str("growing")
    ELSE IF RLt(growth.v, RInt(-5)) THEN Str("declining")
    ELSE Str("stable")

MarginTrend(latest, previous) ==
    IF Truthy(latest) /\ Truthy(previous)
    THEN LET marginChange == latest.v - previous.v
         IN  IF marginChange > 1 THEN Str("improving")
             ELSE IF marginChange < -1 THEN Str("declining")
             ELSE Str("stable")
    ELSE Undef

Cagr3y(latest, threeYearsAgo) ==
    IF Truthy(latest) /\ Truthy(threeYearsAgo)
    THEN Cagr(Rat(latest.v, threeYearsAgo.v))
    ELSE Undef

\* values.filter(v => v !== undefined): null passes the filter.
NotUndefined(v) == v # Undef

\* reduce((a, b) => a + b, 0): null adds as 0.
RECURSIVE SumValues(_)
SumValues(values) ==
    IF Len(values) = 0 THEN 0
    ELSE (IF IsNum(values[1]) THEN values[1].v ELSE 0) + SumValues(Tail(values))

Average(values) ==
    LET present == filter(values, NotUndefined)
    IN  IF Len(present) > 0 THEN Num(Rat(SumValues(present), Len(present))) ELSE Undef

Column(recs, f) == [i \in 1..Len(recs) |-> recs[i][f]]

TrendsOfSorted(sorted) ==
    LET two == Len(sorted) >= 2
        three == Len(sorted) >= 3
        last3Years == slice0(sorted, 3)
        revenue_growth_1y ==
            IF two THEN Growth1y(sorted[1].revenue, sorted[2].revenue) ELSE Undef
        profit_growth_1y ==
            IF two THEN Growth1y(sorted[1].profit_after_tax, sorted[2].profit_after_tax)
            ELSE Undef
    IN  [revenue_growth_1y |-> revenue_growth_1y,
         profit_growth_1y |-> profit_growth_1y,
         ebitda_growth_1y |->
            IF two THEN Growth1y(sorted[1].ebitda, sorted[2].ebitda) ELSE Undef,
         employee_growth_1y |->
            IF two THEN Growth1y(sorted[1].average_count, sorted[2].average_count) ELSE Undef,
         revenue_trend |-> Direction(revenue_growth_1y),
         profit_trend |-> Direction(profit_growth_1y),
         margin_trend |->
            IF two THEN MarginTrend(sorted[1].ebitda_margin, sorted[2].ebitda_margin) ELSE Undef,
         revenue_growth_3y_cagr |->
            IF three THEN Cagr3y(sorted[1].revenue, sorted[3].revenue) ELSE Undef,
         profit_growth_3y_cagr |->
            IF three THEN Cagr3y(sorted[1].profit_after_tax, sorted[3].profit_after_tax)
            ELSE Undef,
         average_revenue_3y |-> Average(Column(last3Years, "revenue")),
         average_profit_3y |-> Average(Column(last3Years, "profit_after_tax")),
         average_ebitda_3y |-> Average(Column(last3Years, "ebitda")),
         average_ebitda_margin_3y |-> Average(Column(last3Years, "ebitda_margin")),
         average_recurring_revenue_pct_3y |-> Average(Column(last3Years, "recurring_pct"))]

\* A plausible slip: annualData.sort(...) without the copy sorts the caller's array.
SortInPlace(annualData) ==
    [sorted |-> SortDesc(annualData), annualData |-> SortDesc(annualData)]

\* const sorted = [...annualData].sort(...): the spread copies the array, the
\* copy is sorted and annualData keeps its order.
SpreadSort(annualData) ==
    [sorted |-> SortDesc(annualData), annualData |-> annualData]

calculateTrends(annualData) ==
    IF Len(annualData) < 1 THEN EmptyTrends
    ELSE TrendsOfSorted(SpreadSort(annualData).sorted)

\* The array passed to calculateTrends as the call leaves it.
AnnualDataAfterCalculateTrends(annualData) ==
    IF Len(annualData) < 1 THEN annualData ELSE SpreadSort(annualData).annualData

\* The latest_year summary written by extractFromCompany.
LatestYear(latest) ==
    [period_end |-> latest.period_end,
     revenue |-> latest.revenue,
     profit |-> latest.profit_after_tax,
     ebitda |-> latest.ebitda,
     recurring_revenue_percentage |-> latest.recurring_pct,
     employees |-> latest.average_count]

EmptyLatestYear ==
    [period_end |-> Undef, revenue |-> Undef, profit |-> Undef, ebitda |-> Undef,
     recurring_revenue_percentage |-> Undef, employees |-> Undef]

-----------------------------------------------------------------------------
(* The company record.  Optional booleans are FALSE when absent, optional   *)
(* arrays are empty when absent.  Timestamps (updated_at, scraped_at,       *)
(* computed_at, extracted_at) are not modelled.                             *)

EmptyExtracted ==
    [annual_data |-> <<>>, trends |-> EmptyTrends, latest_year |-> EmptyLatestYear,
     total_years_available |-> Undef]

BaseCompany ==
    [company_name |-> "Acme Ltd",
     company_number |-> "12345678",
     date_of_incorporation |-> "1970-01-01",
     registered_address |-> Str("1 High Street, Ware"),
     registered_address_structured |-> Undef,
     company_status |-> "active",
     has_insolvency_history |-> FALSE,
     has_been_liquidated |-> FALSE,
     insolvency |-> Undef,
     charges |-> Undef,
     accounts |-> Undef,
     sic_codes |-> <<>>,
     financials |-> [revenue |-> Undef, profit |-> Undef, ebitda |-> Undef,
                     employees |-> Undef, extracted |-> EmptyExtracted],
     enrichment |-> [website |-> Undef, headcount |-> Undef, business_keywords |-> <<>>, services |-> <<>>,
                     tech_stack |-> <<>>, business_description |-> "",
                     msp_likelihood_score |-> Undef, msp_likelihood_confidence |-> Undef],
     investment_score |-> [score |-> Undef, location_distance_km |-> Undef]]

NoResult == [fn |-> "none"]

-----------------------------------------------------------------------------
(* The clock *)

NowStart == 1095
MaxNow == 1096

Tick ==
    /\ now < MaxNow
    /\ now' = now + 1
    /\ UNCHANGED <<company, docs, result>>

-----------------------------------------------------------------------------
(* Scoring a company record: calculateInvestmentScore(company).  geo is the *)
(* outcome of getDistanceFromLondon, awaited only when no distance is       *)
(* stored on the record.                                                    *)

\* What getDistanceFromLondon returns to the scorer.
GeoOutcomes == {Null, Num(24997), Num(25097), Num(200095)}

\* The first entry of a geocoder answer.
Place(lat, lon) == JsonArray(<<[lat |-> lat, lon |-> lon]>>)

FailedFetches ==
    {NetworkError, Response(FALSE, JsonNull), Response(TRUE, InvalidJson),
     Response(TRUE, JsonArray(<<>>)), Response(TRUE, Place("n/a", "-0.1278"))}

FetchOutcomes ==
    FailedFetches \cup
    {Response(TRUE, Place("51.7322", "-0.1278")), Response(TRUE, Place("51.7331", "-0.1278")),
     Response(TRUE, Place("53.3069", "-0.1278"))}

\* No request is made when the record stores a distance.
NotFetched == [kind |-> "none"]

ScoreIncorporationDates == {"1970-01-01", "1971-01-01", "1972-12-30", "1973-12-31"}
ScoreEmployees == {Undef, Num(0), Num(10), Num(20)}
ScoreHeadcounts == {Undef, Num(100)}
ScoreRevenues == {Undef, Num(2500000), Num(3000000), Num(9000000)}
ScoreEbitdas == {Undef, Num(250000), Num(1000000), Num(-100000)}
ScoreTechStacks ==
    {<<>>, <<"Linux", "Microsoft Azure", "Microsoft Azure">>,
     <<"Azure", "M365", "SharePoint", "Power BI">>}
ScoreStoredDistances == {Undef, Num(0), Num(150000)}

ScoreCompanies ==
    {[BaseCompany EXCEPT
        !.date_of_incorporation = d,
        !.financials.employees = e,
        !.enrichment.headcount = h,
        !.financials.revenue = r,
        !.financials.ebitda = b,
        !.enrichment.tech_stack = ts,
        !.investment_score.location_distance_km = km] :
      d \in ScoreIncorporationDates, e \in ScoreEmployees, h \in ScoreHeadcounts,
      r \in ScoreRevenues, b \in ScoreEbitdas, ts \in ScoreTechStacks,
      km \in ScoreStoredDistances}

InitScore ==
    /\ now = NowStart
    /\ company \in ScoreCompanies
    /\ docs = <<>>
    /\ result = NoResult

\* The call's outcome; an exception of the awaited resolver rejects the call.
\* resolverCalls counts the calls of getDistanceFromLondon.
ScoreResult(fetched, geo, resolverCalls) ==
    [fn |-> "calculateInvestmentScore", at |-> now, fetched |-> fetched, geo |-> geo,
     resolverCalls |-> resolverCalls,
     out |-> IF geo = Thrown THEN Thrown ELSE calculateInvestmentScore(company, now, geo)]

CalculateInvestmentScore ==
    IF HasStoredDistance(company)
    THEN /\ result' = ScoreResult(NotFetched, Null, 0)
         /\ UNCHANGED <<now, company, docs>>
    ELSE \E fetched \in FetchOutcomes :
             /\ result' = ScoreResult(fetched,
                                      getDistanceFromLondon(company.registered_address,
                                          company.registered_address_structured, fetched),
                                      1)
             /\ UNCHANGED <<now, company, docs>>

NextScore == CalculateInvestmentScore \/ Tick

SpecScore == InitScore /\ [][NextScore]_vars


-----------------------------------------------------------------------------
(* Claims about calculateInvestmentScore (checked under SpecScore) *)

Scored == result.fn = "calculateInvestmentScore"

\* C1: the score lies in [0,100] and equals the sum of the weights of the four
\* reported factors rounded to 2 decimals, for every record (also one whose
\* incorporation date is in the future).
C1_ScoreInRangeAndRoundedSum ==
    Scored =>
        LET f == result.out.factors
            total == RAdd(RAdd(RAdd(f[1].weight, f[2].weight), f[3].weight), f[4].weight)
        IN  /\ Len(f) = 4
            /\ RLeq(RInt(0), result.out.score)
            /\ RLeq(result.out.score, RInt(100))
            /\ result.out.score = Round2(total)

\* C5: the bands are tested in the order employees, revenue, EBITDA; the first
\* one satisfied gives a size factor of exactly 25 tagged with its dimension.
C5_FirstSatisfiedBandGives25 ==
    Scored =>
        LET headcount == IF Truthy(company.financials.employees)
                         THEN company.financials.employees
                         ELSE company.enrichment.headcount
            revenue == company.financials.revenue
            ebitda == company.financials.ebitda
            inE == Truthy(headcount) /\ headcount.v >= 15 /\ headcount.v <= 40
            inR == Truthy(revenue) /\ revenue.v >= 3000000 /\ revenue.v <= 6000000
            inB == Truthy(ebitda) /\ ebitda.v >= 500000 /\ ebitda.v <= 1000000
            size == result.out.factors[2]
        IN  /\ inE => size = [factor |-> "Size (employees)",
                              value |-> RInt(headcount.v), weight |-> RInt(25)]
            /\ ~inE /\ inR => size = [factor |-> "Size (revenue)",
                                      value |-> RInt(revenue.v), weight |-> RInt(25)]
            /\ ~inE /\ ~inR /\ inB => size = [factor |-> "Size (EBITDA)",
                                              value |-> RInt(ebitda.v), weight |-> RInt(25)]

\* A headcount of 20 with revenue and EBITDA outside their bands scored 25,
\* tagged employees.
C5_Witness ==
    /\ Scored
    /\ company.financials.employees = Num(20)
    /\ company.financials.revenue = Num(9000000)
    /\ company.financials.ebitda = Num(250000)
    /\ result.out.factors[2].factor = "Size (employees)"
    /\ result.out.factors[2].weight = RInt(25)

\* C6: the age factor is yearsActive * 8.33 below 3 years and exactly 25 for
\* every yearsActive >= 3.
C6_AgeFactorFullAtThreeYears ==
    Scored =>
        LET incorporated == getTime(Str(company.date_of_incorporation)).v
            yearsActive == Rat(result.at - incorporated, 365)
            age == result.out.factors[1]
        IN  /\ age.value = yearsActive
            /\ RLeq(RInt(3), yearsActive) => age.weight = RInt(25)
            /\ RLt(yearsActive, RInt(3)) => age.weight = RMul(yearsActive, Rat(833, 100))


-----------------------------------------------------------------------------
(* Matching a company record against the thesis: matchesThesisCriteria(company) *)

ThesisIncorporationDates == {"1970-01-01", "1970-01-02", "1971-01-01"}
ThesisStatuses == {"active", "dissolved"}
ThesisSicCodes ==
    {<<>>, <<"62012">>,
     <<"62012", "62090 - Other information technology service activities">>}
ThesisEbitdas == {Undef, Num(2000000)}
ThesisProfits == {Undef, Num(600000)}
ThesisRevenues == {Undef, Num(3000000), Num(-100)}
ThesisEmployees == {Undef, Num(50)}
ThesisHeadcounts == {Undef, Num(15)}
ThesisTechStacks == {<<>>, <<"Microsoft Teams">>}

ThesisCompanies ==
    {[BaseCompany EXCEPT
        !.date_of_incorporation = d,
        !.company_status = st,
        !.has_insolvency_history = ins,
        !.has_been_liquidated = liq,
        !.sic_codes = sic,
        !.financials.ebitda = b,
        !.financials.profit = p,
        !.financials.revenue = r,
        !.financials.employees = e,
        !.enrichment.headcount = h,
        !.enrichment.tech_stack = ts] :
      d \in ThesisIncorporationDates, st \in ThesisStatuses, ins \in BOOLEAN,
      liq \in BOOLEAN, sic \in ThesisSicCodes, b \in ThesisEbitdas, p \in ThesisProfits,
      r \in ThesisRevenues, e \in ThesisEmployees, h \in ThesisHeadcounts,
      ts \in ThesisTechStacks}

InitThesis ==
    /\ now = NowStart
    /\ company \in ThesisCompanies
    /\ docs = <<>>
    /\ result = NoResult

MatchesThesisCriteria ==
    /\ result' = [fn |-> "matchesThesisCriteria", at |-> now,
                  out |-> matchesThesisCriteria(company, now)]
    /\ UNCHANGED <<now, company, docs>>

NextThesis == MatchesThesisCriteria \/ Tick

SpecThesis == InitThesis /\ [][NextThesis]_vars

Matched == result.fn = "matchesThesisCriteria"

\* C4: matches is true exactly when the age (>= 3 years), active-status,
\* no-insolvency, industry-code and size-profile criteria are all met; the
\* technology criterion never changes it; a company younger than 3 years
\* never matches.
C4_MatchesIsAndOfFiveCriteria ==
    Matched =>
        LET cr == result.out.criteria
            ageDays == result.at - getTime(Str(company.date_of_incorporation)).v
        IN  /\ result.out.matches <=> (cr[1].met /\ cr[2].met /\ cr[3].met /\ cr[4].met /\ cr[8].met)
            /\ cr[1].met <=> (ageDays >= 3 * 365)
            /\ cr[2].met <=> (company.company_status = "active")
            /\ cr[3].met <=> (~company.has_insolvency_history /\ ~company.has_been_liquidated)
            /\ (ageDays < 3 * 365) => ~result.out.matches
            /\ \A ts \in ThesisTechStacks \cup {<<"Linux", "Azure">>} :
                  matchesThesisCriteria([company EXCEPT !.enrichment.tech_stack = ts],
                                        result.at).matches = result.out.matches

\* A company matched although no Microsoft technology was identified.
C4_Witness ==
    /\ Matched
    /\ result.out.matches
    /\ ~result.out.criteria[9].met
    /\ result.out.criteria[8].met


-----------------------------------------------------------------------------
(* Classifying a company record: analyzeMSPLikelihood(company) *)

MspNames ==
    {"Acme Ltd", "Acme IT Support Ltd",
     "Gen AI Machine Learning Software Development UI/UX Ltd"}
MspKeywordLists ==
    {<<>>, <<"Managed Services", "MSP", "Helpdesk">>, <<"Digital Transformation">>}
MspServiceLists ==
    {<<>>, <<"IT Support", "Cloud Backup">>, <<"IT Support", "Web Design">>,
     <<"Cloud Backup">>}
MspTechStacks == {<<>>, <<"Azure", "VMware">>, <<"React">>}
MspDescriptions ==
    {"", "We provide managed IT services and remote monitoring",
     "Custom software and digital solutions"}
MspSicCodes == {<<>>, <<"62020">>, <<"62012">>}

MspCompanies ==
    {[BaseCompany EXCEPT
        !.company_name = n,
        !.sic_codes = sic,
        !.enrichment.business_keywords = kw,
        !.enrichment.services = sv,
        !.enrichment.tech_stack = ts,
        !.enrichment.business_description = ds] :
      n \in MspNames, sic \in MspSicCodes, kw \in MspKeywordLists,
      sv \in MspServiceLists, ts \in MspTechStacks, ds \in MspDescriptions}

InitMSP ==
    /\ now = NowStart
    /\ company \in MspCompanies
    /\ docs = <<>>
    /\ result = NoResult

AnalyzeMSPLikelihood ==
    /\ result' = [fn |-> "analyzeMSPLikelihood", out |-> analyzeMSPLikelihood(company)]
    /\ UNCHANGED <<now, company, docs>>

NextMSP == AnalyzeMSPLikelihood

SpecMSP == InitMSP /\ [][NextMSP]_vars

Analyzed == result.fn = "analyzeMSPLikelihood"

NegativeMatches == Len(FoundNegativeKeywords(company))

\* The points from service, vendor, description and industry-code evidence.
NonKeywordEvidence ==
    RAdd(RAdd(RAdd(ServiceScore(company), TechScore(company)), DescriptionScore(company)),
         IF HasItSic(company) THEN RInt(10) ELSE RInt(0))

\* C2 as stated: with 4 or more negative-context matches the penalty is 0.3
\* and the confidence is never 'high', whatever the other evidence is.
C2_NeverHighWithFourNegatives ==
    Analyzed /\ NegativeMatches >= 4 =>
        /\ ContextPenalty(NegativeMatches) = Rat(3, 10)
        /\ result.out.confidence # "high"

\* C2 as amended: with 4 or more negative-context matches the penalty is 0.3,
\* so the keyword contribution is at most 9 points and cannot yield 'high' by
\* itself; 'high' is returned exactly when the total reaches 30, which takes at
\* least 21 points of service, vendor, description and industry-code evidence.
C2_PenaltyFloorCapsKeywordEvidence ==
    Analyzed /\ NegativeMatches >= 4 =>
        /\ ContextPenalty(NegativeMatches) = Rat(3, 10)
        /\ RLeq(MspKeywordScore(company), RInt(9))
        /\ result.out.confidence = "high" <=> RLeq(RInt(30), RawMspScore(company))
        /\ result.out.confidence = "high" => RLeq(RInt(21), NonKeywordEvidence)

\* Five negative phrases matched and the classifier still answered 'high'.
C2_Witness ==
    /\ Analyzed
    /\ NegativeMatches >= 5
    /\ result.out.confidence = "high"

EmptyEnrichment ==
    /\ company.enrichment.business_keywords = <<>>
    /\ company.enrichment.services = <<>>
    /\ company.enrichment.tech_stack = <<>>
    /\ company.enrichment.business_description = ""

NothingFound ==
    /\ result.out.score = 0
    /\ result.out.confidence = "low"
    /\ \A i \in 1..Len(result.out.indicators) : ~result.out.indicators[i].found

\* C3 as stated: empty enrichment gives score 0, 'low' and no indicator found,
\* whatever the company name and the industry codes are.
C3_EmptyEnrichmentFindsNothing ==
    Analyzed /\ EmptyEnrichment => NothingFound

NameHasNoPhrase ==
    /\ \A i \in 1..Len(mspKeywords) :
          ~includes(toLowerCase(company.company_name), mspKeywords[i])
    /\ \A i \in 1..Len(negativeKeywords) :
          ~includes(toLowerCase(company.company_name), negativeKeywords[i])

NoTargetIndustryCode ==
    \A i \in 1..Len(company.sic_codes) :
        ~includes(company.sic_codes[i], "62020") /\ ~includes(company.sic_codes[i], "62090")

\* C3 as amended: empty enrichment gives score 0, 'low' and no indicator found
\* when moreover the company name contains no MSP or negative-context phrase
\* and no industry code contains 62020 or 62090.
C3_EmptyEnrichmentPlainNameFindsNothing ==
    Analyzed /\ EmptyEnrichment /\ NameHasNoPhrase /\ NoTargetIndustryCode => NothingFound

\* An empty enrichment with a plain name and a non-target code was classified.
C3_Witness ==
    /\ Analyzed
    /\ EmptyEnrichment
    /\ company.company_name = "Acme Ltd"
    /\ company.sic_codes = <<"62012">>
    /\ result.out.score = 0


-----------------------------------------------------------------------------
(* Deriving trends from a list of annual records: calculateTrends(annualData). *)
(* The list has pairwise distinct period_end, in any order; one metric takes   *)
(* every value of TrendValues in every record while the others share one       *)
(* background value.                                                           *)

TrendMetrics ==
    {"revenue", "profit_after_tax", "ebitda", "ebitda_margin", "recurring_pct",
     "average_count"}
TrendValues == {Undef, Null, Num(0), Num(100), Num(110), Num(121), Num(-50)}
TrendBackgrounds == {Undef, Num(100)}
TrendPeriods == {Str("2021-12-31"), Str("2022-12-31"), Str("2023-12-31")}

TrendRecord(p, focus, v, bg) ==
    [period_end |-> p,
     revenue |-> IF focus = "revenue" THEN v ELSE bg,
     profit_after_tax |-> IF focus = "profit_after_tax" THEN v ELSE bg,
     ebitda |-> IF focus = "ebitda" THEN v ELSE bg,
     ebitda_margin |-> IF focus = "ebitda_margin" THEN v ELSE bg,
     recurring_pct |-> IF focus = "recurring_pct" THEN v ELSE bg,
     average_count |-> IF focus = "average_count" THEN v ELSE bg,
     mentions |-> <<>>,
     document_source |-> "doc"]

\* The assignments of pairwise distinct periods to n records.
DistinctPeriods(n) ==
    {f \in [1..n -> TrendPeriods] : \A i, j \in 1..n : i # j => f[i] # f[j]}

InitTrends ==
    /\ now = NowStart
    /\ \E n \in 1..Cardinality(TrendPeriods), focus \in TrendMetrics, bg \in TrendBackgrounds :
          \E ps \in DistinctPeriods(n), vs \in [1..n -> TrendValues] :
              company = [BaseCompany EXCEPT !.financials.extracted.annual_data =
                            [i \in 1..n |-> TrendRecord(ps[i], focus, vs[i], bg)]]
    /\ docs = <<>>
    /\ result = NoResult

CalculateTrends ==
    /\ result' = [fn |-> "calculateTrends",
                  out |-> calculateTrends(company.financials.extracted.annual_data)]
    /\ company' = [company EXCEPT !.financials.extracted.annual_data =
                                      AnnualDataAfterCalculateTrends(@)]
    /\ UNCHANGED <<now, docs>>

NextTrends == CalculateTrends

SpecTrends == InitTrends /\ [][NextTrends]_vars

Trended == result.fn = "calculateTrends"

AnnualData == company.financials.extracted.annual_data

\* The record with exactly `older` records of a later period (periods distinct).
RecordRanked(data, older) ==
    CHOOSE r \in {data[i] : i \in 1..Len(data)} :
        Cardinality({i \in 1..Len(data) : ComparePeriods(data[i], r) < 0}) = older

\* The growth field the claim expects from a latest and a previous value.
ExpectedGrowth(latest, previous) ==
    IF IsNum(latest) /\ IsNum(previous) /\ previous.v # 0
    THEN Num(Rat((latest.v - previous.v) * 100, previous.v))
    ELSE Undef

\* C7: with 2 or more records each 1-year growth field is set exactly when the
\* latest and the previous record both carry the value and the previous value is
\* not 0 (a latest value of 0 does not suppress it), and then equals
\* (latest - previous) / previous * 100.
C7_GrowthSetWhenPreviousNonZero ==
    Trended /\ Len(AnnualData) >= 2 =>
        LET latest == RecordRanked(AnnualData, 0)
            previous == RecordRanked(AnnualData, 1)
            out == result.out
        IN  /\ out.revenue_growth_1y = ExpectedGrowth(latest.revenue, previous.revenue)
            /\ out.profit_growth_1y =
                  ExpectedGrowth(latest.profit_after_tax, previous.profit_after_tax)
            /\ out.ebitda_growth_1y = ExpectedGrowth(latest.ebitda, previous.ebitda)
            /\ out.employee_growth_1y =
                  ExpectedGrowth(latest.average_count, previous.average_count)

AverageFields ==
    {"average_revenue_3y", "average_profit_3y", "average_ebitda_3y",
     "average_ebitda_margin_3y", "average_recurring_revenue_pct_3y"}

\* The average field the claim expects from the only record's value.
ExpectedSingleAverage(v) == IF IsNum(v) THEN Num(RInt(v.v)) ELSE Undef

\* C8: from exactly one record calculateTrends produces only average fields,
\* each equal to the record's value for the field, and no growth, CAGR or
\* trend-direction field.
C8_SingleRecordOnlyAverages ==
    Trended /\ Len(AnnualData) = 1 =>
        LET r == AnnualData[1]
            out == result.out
        IN  /\ \A f \in TrendFields \ AverageFields : out[f] = Undef
            /\ out.average_revenue_3y = ExpectedSingleAverage(r.revenue)
            /\ out.average_profit_3y = ExpectedSingleAverage(r.profit_after_tax)
            /\ out.average_ebitda_3y = ExpectedSingleAverage(r.ebitda)
            /\ out.average_ebitda_margin_3y = ExpectedSingleAverage(r.ebitda_margin)
            /\ out.average_recurring_revenue_pct_3y = ExpectedSingleAverage(r.recurring_pct)


-----------------------------------------------------------------------------
(* Extracting financials from the saved documents of a company: saveDocument, *)
(* extractFromDocument, extractFromCompany and writeCompany.  docs lists the  *)
(* transaction ids of the saved PDF documents in directory order; company is  *)
(* the persisted record.                                                      *)

MaxAnnualRecords == 3

DocumentIds == {"tx1", "tx2", "tx3"}

\* The period_end printed in the accounts saved under a transaction id.
PrintedPeriodEnd(transactionId) ==
    CASE transactionId = "tx1" -> Str("2021-12-31")
      [] transactionId = "tx2" -> Str("N/A")
      [] transactionId = "tx3" -> Str("2023-12-31")

\* options.maxDocuments
MaxDocumentsOptions == {Undef, Num(1)}

\* The JSON a document's extraction yields before the metadata is added.
ExtractionResponse(period_end, revenue) ==
    [period_end |-> period_end,
     revenue |-> revenue,
     profit_after_tax |-> revenue,
     ebitda |-> Undef,
     ebitda_margin |-> Undef,
     recurring_pct |-> Undef,
     average_count |-> Undef,
     mentions |-> IF IsNum(revenue) THEN <<"Microsoft Azure">> ELSE <<>>,
     document_source |-> ""]

\* What the OCR and structuring calls on one document come to: Null for any
\* failure (no content, unparsable JSON, API error), else the extracted JSON;
\* a figure that is not stated comes as null.
ExtractionResponses(transactionId) ==
    {Null, ExtractionResponse(PrintedPeriodEnd(transactionId), Num(100))}
        \cup (IF transactionId = "tx3"
              THEN {ExtractionResponse(PrintedPeriodEnd(transactionId), Null)}
              ELSE {})

\* extractFromDocument: the response with its metadata; schema warnings do not
\* stop it.
extractFromDocument(transactionId, response) ==
    IF response = Null THEN Null
    ELSE [response EXCEPT !.document_source = transactionId]

NumericTrendFields ==
    TrendFields \ {"revenue_trend", "profit_trend", "margin_trend"}

\* /^(SC)?[0-9]{6,8}$/
MatchesCompanyNumber(s) ==
    \/ (Len(s) \in 6..8 /\ AllDigits(s))
    \/ (startsWith(s, "SC") /\ Len(s) \in 8..10 /\ AllDigits(SubSeq(s, 3, Len(s))))

\* /^\d{4}-\d{2}-\d{2}$/
MatchesDatePattern(s) ==
    /\ Len(s) = 10
    /\ AllDigits(SubSeq(s, 1, 4)) /\ SubSeq(s, 5, 5) = "-"
    /\ AllDigits(SubSeq(s, 6, 7)) /\ SubSeq(s, 8, 8) = "-"
    /\ AllDigits(SubSeq(s, 9, 10))

\* z.number().min(0).max(100).optional()
OptionalScore(x) == x = Undef \/ (IsNum(x) /\ x.v >= 0 /\ x.v <= 100)

\* The same test for the investment score, a number with 2 decimals.
OptionalDecimalScore(x) ==
    x = Undef \/ (IsNum(x) /\ RLeq(RInt(0), x.v) /\ RLeq(x.v, RInt(100)))

\* CompanySchema.parse accepts the record: the core fields, the scores and
\* the fields that extraction writes.  z.number() rejects null and NaN.
CompanySchemaAccepts(c) ==
    LET e == c.financials.extracted
    IN  /\ Len(c.company_name) >= 1
        /\ MatchesCompanyNumber(c.company_number)
        /\ MatchesDatePattern(c.date_of_incorporation)
        /\ OptionalDecimalScore(c.investment_score.score)
        /\ c.investment_score.location_distance_km.k \in {"undefined", "number"}
        /\ \A i \in 1..Len(e.annual_data) : IsStr(e.annual_data[i].period_end)
        /\ \A f \in NumericTrendFields : e.trends[f].k \in {"undefined", "number", "cagr"}
        /\ \A f \in TrendFields \ NumericTrendFields :
              e.trends[f].k \in {"undefined", "string"}
        /\ e.latest_year.period_end.k \in {"undefined", "string"}
        /\ \A f \in {"revenue", "profit", "ebitda", "recurring_revenue_percentage",
                     "employees"} : e.latest_year[f].k \in {"undefined", "number"}
        /\ e.total_years_available.k \in {"undefined", "number"}
        /\ \A f \in {"revenue", "profit", "ebitda", "employees"} :
              c.financials[f].k \in {"undefined", "number"}
        /\ OptionalScore(c.enrichment.msp_likelihood_score)
        /\ c.enrichment.msp_likelihood_confidence \in
              {Undef, Str("high"), Str("medium"), Str("low")}

\* A plausible slip: the description left out of the test for enrichment data.
HasEnrichmentLists(validated) ==
    \/ Len(validated.enrichment.business_keywords) > 0
    \/ Len(validated.enrichment.services) > 0
    \/ Len(validated.enrichment.tech_stack) > 0

\* Enrichment data is present: a non-empty keyword list, service list or tech
\* stack, or a description.
HasEnrichmentData(validated) ==
    \/ Len(validated.enrichment.business_keywords) > 0
    \/ Len(validated.enrichment.services) > 0
    \/ Len(validated.enrichment.tech_stack) > 0
    \/ validated.enrichment.business_description # ""

\* The record writeCompany stores for an accepted record: the MSP likelihood
\* is recomputed when enrichment data is present.
writeCompany(validated) ==
    IF HasEnrichmentData(validated)
    THEN LET mspAnalysis == analyzeMSPLikelihood(validated)
         IN  [validated EXCEPT
                 !.enrichment.msp_likelihood_score = Num(mspAnalysis.score),
                 !.enrichment.msp_likelihood_confidence = Str(mspAnalysis.confidence)]
    ELSE validated

\* The state of one extractFromCompany run before its first document.
RunStart(c) ==
    [annual_data |-> c.financials.extracted.annual_data,
     existingPeriods |-> {c.financials.extracted.annual_data[i].period_end :
                             i \in 1..Len(c.financials.extracted.annual_data)},
     total_years_available |-> c.financials.extracted.total_years_available,
     extracted |-> 0, skipped |-> 0, errors |-> 0]

\* One iteration of the document loop.
ProcessDocument(run, transactionId, response, force) ==
    IF ~force /\ \E i \in 1..Len(run.annual_data) :
                    run.annual_data[i].document_source = transactionId
    THEN [run EXCEPT !.skipped = @ + 1]
    ELSE
    LET extractedData == extractFromDocument(transactionId, response)
    IN  IF extractedData = Null THEN [run EXCEPT !.errors = @ + 1]
        ELSE IF extractedData.period_end \in run.existingPeriods /\ ~force
        THEN [run EXCEPT !.skipped = @ + 1]
        ELSE [run EXCEPT
                 !.annual_data = Append(@, extractedData),
                 !.existingPeriods = @ \cup {extractedData.period_end},
                 !.total_years_available = Num(Len(run.annual_data) + 1),
                 !.extracted = @ + 1]

RECURSIVE ProcessDocuments(_, _, _, _)
ProcessDocuments(run, pdfs, responses, force) ==
    IF Len(pdfs) = 0 THEN run
    ELSE ProcessDocuments(ProcessDocument(run, pdfs[1], responses[1], force),
                          Tail(pdfs), Tail(responses), force)

\* Add the strings of b that a lacks, in order (a Set keeps insertion order).
RECURSIVE AddAll(_, _)
AddAll(a, b) ==
    IF Len(b) = 0 THEN a
    ELSE AddAll(IF \E i \in 1..Len(a) : a[i] = b[1] THEN a ELSE Append(a, b[1]), Tail(b))

RECURSIVE AllTechMentions(_)
AllTechMentions(annual_data) ==
    IF Len(annual_data) = 0 THEN <<>>
    ELSE AddAll(AllTechMentions(SubSeq(annual_data, 1, Len(annual_data) - 1)),
                annual_data[Len(annual_data)].mentions)

\* The record extractFromCompany hands to writeCompany: sorted is annual_data
\* after the in-place sort, trends the result of calculateTrends on it.
UpdatedCompany(c, run, sorted, trends) ==
    LET latest_year == IF Len(sorted) > 0 THEN LatestYear(sorted[1])
                       ELSE c.financials.extracted.latest_year
        allTechMentions == AllTechMentions(sorted)
    IN  [c EXCEPT
            !.financials.extracted.annual_data = sorted,
            !.financials.extracted.total_years_available = run.total_years_available,
            !.financials.extracted.trends = trends,
            !.financials.extracted.latest_year = latest_year,
            !.financials.revenue = IF Truthy(latest_year.revenue) THEN latest_year.revenue ELSE @,
            !.financials.profit = IF Truthy(latest_year.profit) THEN latest_year.profit ELSE @,
            !.financials.employees =
                IF Truthy(latest_year.employees) THEN latest_year.employees ELSE @,
            !.enrichment.tech_stack =
                IF Len(allTechMentions) > 0 THEN allTechMentions ELSE @]

RunResult(extracted, skipped, errors) ==
    [fn |-> "extractFromCompany",
     out |-> [extracted |-> extracted, skipped |-> skipped, errors |-> errors]]

InitExtract ==
    /\ now = NowStart
    /\ company = BaseCompany
    /\ docs = <<>>
    /\ result = NoResult

\* saveDocument writes a PDF under a transaction id; the directory lists it at
\* any position.
SaveDocument ==
    \E transactionId \in DocumentIds, at \in 0..Len(docs) :
        /\ \A i \in 1..Len(docs) : docs[i] # transactionId
        /\ docs' = SubSeq(docs, 1, at) \o <<transactionId>> \o SubSeq(docs, at + 1, Len(docs))
        /\ UNCHANGED <<now, company, result>>

\* One run of extractFromCompany(companyNumber, options).  A record that
\* writeCompany rejects is not stored and the run returns errors: 1.
\* The end of a run that found documents: the record is validated and written,
\* or the failure is caught and counted as one error.
PersistRun(run, updated) ==
    IF CompanySchemaAccepts(updated)
    THEN /\ company' = writeCompany(updated)
         /\ result' = RunResult(run.extracted, run.skipped, run.errors)
    ELSE /\ company' = company
         /\ result' = RunResult(0, 0, 1)

\* What follows the document loop: sort, trends, latest_year, persist.
FinishRun(run, sorted) ==
    PersistRun(run, UpdatedCompany(company, run, sorted, calculateTrends(sorted)))

\* The document loop and what follows it.
RunDocuments(run) ==
    /\ Len(run.annual_data) <= MaxAnnualRecords
    /\ IF Len(docs) = 0
       THEN /\ company' = company
            /\ result' = RunResult(0, 0, 0)
       ELSE FinishRun(run, SortDesc(run.annual_data))

PdfsToProcess(maxDocuments) ==
    IF Truthy(maxDocuments) THEN slice0(docs, maxDocuments.v) ELSE docs

ExtractFromCompany ==
    \E force \in BOOLEAN, maxDocuments \in MaxDocumentsOptions :
        \E responses \in [1..Len(PdfsToProcess(maxDocuments)) ->
                              UNION {ExtractionResponses(id) : id \in DocumentIds}] :
            /\ \A i \in 1..Len(PdfsToProcess(maxDocuments)) :
                  responses[i] \in ExtractionResponses(PdfsToProcess(maxDocuments)[i])
            /\ RunDocuments(ProcessDocuments(RunStart(company), PdfsToProcess(maxDocuments),
                                             responses, force))
            /\ UNCHANGED <<now, docs>>

NextExtract == SaveDocument \/ ExtractFromCompany

SpecExtract == InitExtract /\ [][NextExtract]_vars

PersistedAnnualData == company.financials.extracted.annual_data

\* C9: the persisted annual_data never holds two records with the same
\* period_end, whatever runs of extractFromCompany were made (force included).
C9_NoDuplicatePeriods ==
    \A i, j \in 1..Len(PersistedAnnualData) :
        i # j => PersistedAnnualData[i].period_end # PersistedAnnualData[j].period_end


PersistedLatestYear == company.financials.extracted.latest_year

\* C10: the persisted annual_data is sorted by period_end, most recent first;
\* when it is not empty latest_year is the projection of its first record; and
\* no record is of a later period than the one latest_year describes.
C10_SortedAndLatestYearIsFirst ==
    /\ \A i, j \in 1..Len(PersistedAnnualData) :
          i < j => ComparePeriods(PersistedAnnualData[i], PersistedAnnualData[j]) <= 0
    /\ Len(PersistedAnnualData) > 0 =>
          PersistedLatestYear = LatestYear(PersistedAnnualData[1])
    /\ \A i \in 1..Len(PersistedAnnualData) :
          LET recordTime == getTime(PersistedAnnualData[i].period_end)
              latestTime == getTime(PersistedLatestYear.period_end)
          IN  IsNum(recordTime) /\ IsNum(latestTime) => recordTime.v <= latestTime.v


-----------------------------------------------------------------------------
(* Claims about repeated calls and about what a call leaves behind *)

\* Both calls of one function got the same answer from the distance resolver.
SameResolverAnswer == result.fn = "calculateInvestmentScore" => result'.geo = result.geo

\* C11: two calls of the same function on an unchanged record return equal
\* results whenever they are made (for the scorer: given the same answer of
\* the distance resolver); time may pass between the two calls.
C11_RepeatedCallsAgree ==
    [][(/\ result.fn # "none"
        /\ result'.fn = result.fn
        /\ company' = company
        /\ SameResolverAnswer) => result'.out = result.out]_vars


\* The period_end of the records of a list, in list order.
PeriodsOf(data) == [i \in 1..Len(data) |-> data[i].period_end]

\* C12: a call of calculateInvestmentScore, analyzeMSPLikelihood,
\* matchesThesisCriteria or calculateTrends writes no field of the company
\* record; calculateTrends neither reorders nor modifies the annual-data array
\* it is given.
C12_CallsLeaveInputUnchanged == [][company' = company]_vars

\* calculateTrends was called on an array that is not in sorted order, and the
\* array still is in that order.
C12_Witness ==
    /\ Trended
    /\ PeriodsOf(AnnualData) = <<Str("2021-12-31"), Str("2023-12-31"), Str("2022-12-31")>>
    /\ result.out.revenue_growth_1y # Undef


-----------------------------------------------------------------------------
(* Scoring a distance: calculateLocationScore(distanceKm), for null and for *)
(* every distance from 0 to MaxDistance tenths of a kilometre and for one    *)
(* metre more than each step.                                               *)

MaxDistance == 2100

\* The steps of the claim: up to 25 km 25 points, up to 50 km 20, up to 100 km
\* 15, up to 150 km 10, up to 200 km 5 (distances in metres).
LocationSteps ==
    <<<<25000, 25>>, <<50000, 20>>, <<100000, 15>>, <<150000, 10>>, <<200000, 5>>>>

LocationInputs ==
    {Null} \cup {Num(d * 100) : d \in 0..MaxDistance}
           \cup {Num(LocationSteps[i][1] + 1) : i \in 1..Len(LocationSteps)}

InitLocation ==
    /\ now = NowStart
    /\ company = BaseCompany
    /\ docs = <<>>
    /\ result = NoResult

CalculateLocationScore ==
    \E distanceKm \in LocationInputs :
        /\ result' = [fn |-> "calculateLocationScore", distanceKm |-> distanceKm,
                      out |-> calculateLocationScore(distanceKm)]
        /\ UNCHANGED <<now, company, docs>>

NextLocation == CalculateLocationScore

SpecLocation == InitLocation /\ [][NextLocation]_vars

Located == result.fn = "calculateLocationScore"

ExpectedLocationScore(distanceKm) ==
    IF distanceKm = Null THEN 0
    ELSE LET reached == {i \in 1..Len(LocationSteps) : distanceKm.v <= LocationSteps[i][1]}
         IN  IF reached = {} THEN 0
             ELSE LocationSteps[CHOOSE i \in reached : \A j \in reached : i <= j][2]

\* C13: the location score is 25 up to 25 km, 20 up to 50 km, 15 up to 100 km,
\* 10 up to 150 km, 5 up to 200 km (each bound included), 0 above 200 km and 0
\* for a null distance; no nearer distance scores less.
C13_LocationStepFunction ==
    Located =>
        /\ result.out = ExpectedLocationScore(result.distanceKm)
        /\ result.distanceKm # Null =>
              \A nearer \in LocationInputs \ {Null} :
                  nearer.v <= result.distanceKm.v =>
                      calculateLocationScore(nearer) >= result.out

\* A distance of exactly 25 km scored 25.
C13_Witness ==
    /\ Located
    /\ result.distanceKm = Num(25000)
    /\ result.out = 25


-----------------------------------------------------------------------------
(* Scoring records with and without an address: calculateInvestmentScore    *)
(* with getDistanceFromLondon under every outcome of the geocoding request. *)

NoStructuredAddress ==
    [address_line_1 |-> Undef, address_line_2 |-> Undef, locality |-> Undef,
     postal_code |-> Undef, region |-> Undef, country |-> Undef]

GeoAddresses == {Undef, Str(""), Str("  "), Str("1 High Street, Ware")}
GeoStructuredAddresses ==
    {Undef, NoStructuredAddress,
     [NoStructuredAddress EXCEPT !.address_line_1 = Str("1 High Street"),
                                 !.locality = Str("Ware"), !.postal_code = Str("SG12 9AA")]}
GeoStoredDistances == {Undef, Num(150000)}

GeoCompanies ==
    {[BaseCompany EXCEPT
        !.registered_address = a,
        !.registered_address_structured = sa,
        !.financials.employees = e,
        !.enrichment.tech_stack = ts,
        !.investment_score.location_distance_km = km] :
      a \in GeoAddresses, sa \in GeoStructuredAddresses, e \in ScoreEmployees,
      ts \in ScoreTechStacks, km \in GeoStoredDistances}

InitGeo ==
    /\ now = NowStart
    /\ company \in GeoCompanies
    /\ docs = <<>>
    /\ result = NoResult

NextGeo == CalculateInvestmentScore \/ Tick

SpecGeo == InitGeo /\ [][NextGeo]_vars

\* The record has no address: no address text, and no structured address or
\* one without any part.
MissingAddress ==
    /\ company.registered_address \in {Undef, Str("")}
    /\ \/ company.registered_address_structured = Undef
       \/ company.registered_address_structured = NoStructuredAddress

\* C14: when the record stores no distance and the resolution fails (missing
\* address, network error, non-OK response, empty result, unparsable
\* coordinates), getDistanceFromLondon returns null, the scorer completes with
\* a location factor of 0, and the age, size and Microsoft factors are those of
\* a successful resolution.
C14_FailedResolutionScoresZero ==
    (/\ Scored
     /\ ~IsNum(company.investment_score.location_distance_km)
     /\ (MissingAddress \/ result.fetched \in FailedFetches)) =>
        /\ result.geo = Null
        /\ result.out # Thrown
        /\ result.out.factors[4].weight = RInt(0)
        /\ \A i \in 1..3 :
              result.out.factors[i] =
                  calculateInvestmentScore(company, result.at, Num(24997)).factors[i]
        /\ result.out.score =
              Round2(RAdd(RAdd(result.out.factors[1].weight, result.out.factors[2].weight),
                          result.out.factors[3].weight))

\* The request of a record with an address and 20 employees failed on the
\* network, and the record was scored with its size factor of 25.
C14_Witness ==
    /\ Scored
    /\ company.registered_address = Str("1 High Street, Ware")
    /\ result.fetched = NetworkError
    /\ result.geo = Null
    /\ result.out.factors[2].weight = RInt(25)
    /\ result.out.factors[4].weight = RInt(0)


\* The context penalty of the analysed record.
AnalyzedPenalty == ContextPenalty(NegativeMatches)

\* The least penalty that still allows 'medium'.
MediumPenaltyFloor == IF NegativeMatches > 0 THEN Rat(6, 10) ELSE Rat(3, 10)

\* C15: the confidence is 'high' exactly when the returned score is >= 30,
\* 'medium' exactly when the returned score is >= 15 and < 30 and the context
\* penalty is >= 0.6 if a negative phrase matched (>= 0.3 otherwise), and 'low'
\* in every other case.
C15_ConfidenceFromReturnedScore ==
    Analyzed =>
        LET high == result.out.score >= 30
            medium == /\ result.out.score >= 15
                      /\ result.out.score < 30
                      /\ RLeq(MediumPenaltyFloor, AnalyzedPenalty)
        IN  /\ result.out.confidence = "high" <=> high
            /\ result.out.confidence = "medium" <=> medium
            /\ result.out.confidence = "low" <=> (~high /\ ~medium)

-----------------------------------------------------------------------------
(* isHighValueTarget(company) at time t *)

\* The slip of comparing the rounded number of years.
TooYoungRounded(yearsActive) == yearsActive # NaN /\ Round0(yearsActive) < 3

\* yearsActive < 3; the comparison is false when yearsActive is NaN.
TooYoung(yearsActive) == yearsActive # NaN /\ RLt(yearsActive, RInt(3))

\* company.insolvency?.has_insolvency_history || company.has_been_liquidated
HasRedFlag(c) ==
    \/ (c.insolvency # Undef /\ c.insolvency.has_insolvency_history)
    \/ c.has_been_liquidated

hasFinancials(c) == Truthy(c.financials.revenue) \/ Truthy(c.financials.profit)

hasEnrichment(c) == TruthyStr(c.enrichment.website) \/ Truthy(c.enrichment.headcount)

isHighValueTarget(c, t) ==
    IF TooYoung(calculateYearsActive(c.date_of_incorporation, t)) THEN FALSE
    ELSE IF HasRedFlag(c) THEN FALSE
    ELSE hasFinancials(c) \/ hasEnrichment(c)

\* Records given to isHighValueTarget: incorporated three years before the
\* first call, a day later, a year later, or on a date the calendar does not
\* have (the schema asks only for the shape YYYY-MM-DD).
TargetDates == {"1970-01-01", "1970-01-02", "1971-01-01", "1970-13-01"}
TargetInsolvencies == {Undef, [has_insolvency_history |-> TRUE], [has_insolvency_history |-> FALSE]}
TargetRevenues == {Undef, Num(0), Num(4000000)}
TargetProfits == {Undef, Num(-50000)}
TargetWebsites == {Undef, Str("https://acme.example")}
TargetHeadcounts == {Undef, Num(20)}

TargetCompany(date, insolvency, liquidated, revenue, profit, website, headcount) ==
    [BaseCompany EXCEPT !.date_of_incorporation = date,
                        !.insolvency = insolvency,
                        !.has_been_liquidated = liquidated,
                        !.financials.revenue = revenue,
                        !.financials.profit = profit,
                        !.enrichment.website = website,
                        !.enrichment.headcount = headcount]

InitTarget ==
    /\ now = NowStart
    /\ docs = <<>>
    /\ result = NoResult
    /\ \E date \in TargetDates, insolvency \in TargetInsolvencies, liquidated \in BOOLEAN,
          revenue \in TargetRevenues, profit \in TargetProfits,
          website \in TargetWebsites, headcount \in TargetHeadcounts :
            company = TargetCompany(date, insolvency, liquidated, revenue, profit, website, headcount)

IsHighValueTarget ==
    /\ result' = [fn |-> "isHighValueTarget", at |-> now, out |-> isHighValueTarget(company, now)]
    /\ UNCHANGED <<now, company, docs>>

NextTarget == IsHighValueTarget \/ Tick

SpecTarget == InitTarget /\ [][NextTarget]_vars

Targeted == result.fn = "isHighValueTarget"

\* The days from the incorporation date to the call, NaN when the record's
\* date is no date.
DaysActiveAtCall == getTime(Str(company.date_of_incorporation))

\* C16: isHighValueTarget never returns true for a company that, at the call,
\* has been active for less than 3 years (3 * 365 days).
C16_NoHighValueUnderThreeYears ==
    (Targeted /\ IsNum(DaysActiveAtCall) /\ result.at - DaysActiveAtCall.v < 3 * DAYS_PER_YEAR)
        => result.out = FALSE

\* A record with revenue and a website and no red flag is refused one day
\* short of three years.
C16_Witness ==
    /\ Targeted
    /\ result.out = FALSE
    /\ IsNum(DaysActiveAtCall)
    /\ result.at - DaysActiveAtCall.v = 3 * DAYS_PER_YEAR - 1
    /\ ~HasRedFlag(company)
    /\ hasFinancials(company)
    /\ hasEnrichment(company)

-----------------------------------------------------------------------------
(* fileSystem.writeCompany(company): the record is validated, its MSP       *)
(* likelihood is recomputed and it is written to <company_number>.json.     *)
(* company is the content of the file of company number 12345678.           *)

\* The slip of writing without validation.
SchemaParseSkipped(record) == TRUE

\* CompanySchema.parse(company) returns; it throws otherwise.
SchemaParseSucceeds(record) == CompanySchemaAccepts(record)

\* Records handed to writeCompany, valid and not.
WriteNames == {"Acme IT Support Ltd", ""}
WriteNumbers == {"12345678", "SC123456", "SC12345", "1234567A"}
WriteDates == {"1970-01-01", "1970-13-01", "1970-1-1"}
WriteScores == {Undef, Num(RInt(100)), Num(RInt(101)), Num(RInt(-1))}
WriteMspScores == {Undef, Num(150)}
WriteServices == {<<>>, <<"IT Support", "Cloud Backup">>}

WriteInput(name, number, date, score, mspScore, services) ==
    [BaseCompany EXCEPT !.company_name = name,
                        !.company_number = number,
                        !.date_of_incorporation = date,
                        !.investment_score.score = score,
                        !.enrichment.msp_likelihood_score = mspScore,
                        !.enrichment.services = services]

WriteResult(input, before, out, written) ==
    [fn |-> "writeCompany", input |-> input, before |-> before, out |-> out, written |-> written]

\* fs.writeJson(filePath, validated): the record replaces the file named by
\* its company number.
WriteJson(input, validated) ==
    /\ company' = IF validated.company_number = company.company_number
                  THEN validated ELSE company
    /\ result' = WriteResult(input, company, "written", validated)

\* writeCompany(input): a rejected record raises before anything is written.
WriteRecord(input) ==
    IF SchemaParseSucceeds(input)
    THEN WriteJson(input, writeCompany(input))
    ELSE /\ company' = company
         /\ result' = WriteResult(input, company, "thrown", Undef)

WriteCompany ==
    /\ \E name \in WriteNames, number \in WriteNumbers, date \in WriteDates,
          score \in WriteScores, mspScore \in WriteMspScores, services \in WriteServices :
            WriteRecord(WriteInput(name, number, date, score, mspScore, services))
    /\ UNCHANGED <<now, docs>>

InitWrite ==
    /\ now = NowStart
    /\ docs = <<>>
    /\ result = NoResult
    /\ company = BaseCompany

NextWrite == WriteCompany

SpecWrite == InitWrite /\ [][NextWrite]_vars

WriteCalled == result.fn = "writeCompany"

-----------------------------------------------------------------------------
(* The 3-year fields of calculateTrends *)

\* The value a ranked record carries for a field, absent when the list has no
\* record of that rank.
RankedValue(data, older, field) ==
    IF Len(data) > older THEN RecordRanked(data, older)[field] ELSE Undef

\* The claim's condition for a CAGR field: at least 3 records, the latest and
\* the third-most-recent value present, the earlier one positive.
CagrExpected(data, field) ==
    /\ Len(data) >= 3
    /\ IsNum(RankedValue(data, 0, field))
    /\ IsNum(RankedValue(data, 2, field))
    /\ RankedValue(data, 2, field).v > 0

\* C18: a 3-year CAGR field (revenue or profit) is set only when there are at
\* least 3 records, the latest and the third-most-recent record both carry the
\* value and the earlier value is positive; it is omitted in every other case
\* and is never NaN.
C18_CagrOnlyFromPositiveEarlierValue ==
    Trended =>
        /\ result.out.revenue_growth_3y_cagr # NaN
        /\ result.out.profit_growth_3y_cagr # NaN
        /\ result.out.revenue_growth_3y_cagr # Undef => CagrExpected(AnnualData, "revenue")
        /\ result.out.profit_growth_3y_cagr # Undef =>
              CagrExpected(AnnualData, "profit_after_tax")

\* The values of a field in the (up to) 3 most recent records.
RecentValues(data, field) ==
    [i \in 1..(IF Len(data) < 3 THEN Len(data) ELSE 3) |-> RankedValue(data, i - 1, field)]

RECURSIVE SumOfNumbers(_)
SumOfNumbers(values) ==
    IF Len(values) = 0 THEN 0 ELSE values[1].v + SumOfNumbers(Tail(values))

\* The mean over the values that are present; absent and null values count
\* neither in the sum nor in the number of values.
MeanOfPresent(values) ==
    LET present == filter(values, IsNum)
    IN  IF Len(present) > 0 THEN Num(Rat(SumOfNumbers(present), Len(present))) ELSE Undef

\* C19: each average field is the mean over exactly those of the 3 most recent
\* records in which the field is present (neither absent nor null), and is
\* omitted when no record has it.
C19_AveragesOverPresentValues ==
    Trended =>
        /\ result.out.average_revenue_3y = MeanOfPresent(RecentValues(AnnualData, "revenue"))
        /\ result.out.average_profit_3y =
              MeanOfPresent(RecentValues(AnnualData, "profit_after_tax"))
        /\ result.out.average_ebitda_3y = MeanOfPresent(RecentValues(AnnualData, "ebitda"))
        /\ result.out.average_ebitda_margin_3y =
              MeanOfPresent(RecentValues(AnnualData, "ebitda_margin"))
        /\ result.out.average_recurring_revenue_pct_3y =
              MeanOfPresent(RecentValues(AnnualData, "recurring_pct"))

-----------------------------------------------------------------------------
(* calculateTrends on lists that differ only in their order.  The periods   *)
(* are pairwise distinct strings; one of them is no date, which the schema  *)
(* of an annual record (period_end: z.string()) lets through.               *)

OrderPeriods == {Str("2021-12-31"), Str("2023-12-31"), Str("N/A")}
OrderRevenues == {Undef, Num(100), Num(110), Num(121)}

InitOrder ==
    /\ now = NowStart
    /\ docs = <<>>
    /\ result = NoResult
    /\ \E n \in 1..Cardinality(OrderPeriods) :
          \E ps \in {f \in [1..n -> OrderPeriods] : \A i, j \in 1..n : i # j => f[i] # f[j]},
             vs \in [1..n -> OrderRevenues] :
              company = [BaseCompany EXCEPT !.financials.extracted.annual_data =
                            [i \in 1..n |-> TrendRecord(ps[i], "revenue", vs[i], Undef)]]

NextOrder == CalculateTrends

SpecOrder == InitOrder /\ [][NextOrder]_vars

\* The orders in which n records can be listed.
Orders(n) == {p \in [1..n -> 1..n] : \A i, j \in 1..n : i # j => p[i] # p[j]}

Reordered(data, p) == [i \in 1..Len(data) |-> data[p[i]]]

\* C20: for a list of annual records with pairwise distinct period_end,
\* calculateTrends returns the same result for every permutation of the list.
C20_SameResultForEveryOrder ==
    Trended =>
        \A p \in Orders(Len(AnnualData)) :
            calculateTrends(Reordered(AnnualData, p)) = result.out

-----------------------------------------------------------------------------
(* The size profile as the thesis matcher reads it from the record *)

ThesisEbitda == OrZero(OrElse(company.financials.ebitda, company.financials.profit))
ThesisRevenue == OrZero(company.financials.revenue)
ThesisEmployeeCount == OrZero(OrElse(company.financials.employees, company.enrichment.headcount))

SomeThesisBandSatisfied ==
    \/ (ThesisEbitda >= MIN_EBITDA /\ ThesisEbitda <= MAX_EBITDA)
    \/ (ThesisRevenue >= MIN_REVENUE /\ ThesisRevenue <= MAX_REVENUE)
    \/ (ThesisEmployeeCount >= MIN_EMPLOYEES /\ ThesisEmployeeCount <= MAX_EMPLOYEES)

\* At least one of revenue, EBITDA and employee count is present and nonzero,
\* positive or negative.
SomeSizeValuePresent == ThesisEbitda # 0 \/ ThesisRevenue # 0 \/ ThesisEmployeeCount # 0

\* C21: the size-profile criterion of matchesThesisCriteria fails exactly when
\* at least one of revenue, EBITDA and employee count is present and nonzero
\* (positive or negative) and none of the three bands is satisfied; a company
\* with all three missing passes it.
C21_SizeProfileFailsExactlyOutsideBands ==
    Matched =>
        (~result.out.criteria[8].met <=> (SomeSizeValuePresent /\ ~SomeThesisBandSatisfied))


\* Some size band is satisfied in matchesThesisCriteria: a band criterion is
\* reported as met for a value that is not 0.
ThesisBandReported ==
    \/ (result.out.criteria[5].met /\ ThesisEbitda # 0)
    \/ (result.out.criteria[6].met /\ ThesisRevenue # 0)
    \/ (result.out.criteria[7].met /\ ThesisEmployeeCount # 0)

\* C22: some size band is satisfied in matchesThesisCriteria exactly when
\* calculateInvestmentScore awards the full 25 size points to the same record.
C22_SameBandTestInMatcherAndScorer ==
    Matched => (ThesisBandReported <=> SizeFactor(company).weight = RInt(25))

-----------------------------------------------------------------------------
(* Partial credit of the size factor *)

ScoredHeadcount == OrElse(company.financials.employees, company.enrichment.headcount)

NoSizeBandSatisfied ==
    /\ ~(Truthy(ScoredHeadcount) /\ ScoredHeadcount.v >= MIN_EMPLOYEES
            /\ ScoredHeadcount.v <= MAX_EMPLOYEES)
    /\ ~(Truthy(company.financials.revenue) /\ company.financials.revenue.v >= MIN_REVENUE
            /\ company.financials.revenue.v <= MAX_REVENUE)
    /\ ~(Truthy(company.financials.ebitda) /\ company.financials.ebitda.v >= MIN_EBITDA
            /\ company.financials.ebitda.v <= MAX_EBITDA)

\* Partial credit as the claim states it: (value/min)*15 below the band,
\* max(0, 15 - (value-max)/max*15) above it, none without a value.
StatedCredit(x, lo, hi) ==
    IF ~Truthy(x) THEN RInt(0)
    ELSE IF x.v < lo THEN Rat(x.v * 15, lo)
    ELSE RMax(RInt(0), RSub(RInt(15), Rat((x.v - hi) * 15, hi)))

\* The same with the credit below the band floored at 0 as well.
FlooredCredit(x, lo, hi) == RMax(RInt(0), StatedCredit(x, lo, hi))

\* The size factor expected from the three credits: that of the first
\* dimension with nonzero credit, tagged with it; 0 when there is none.
FirstNonzeroCredit(size, employees, revenue, ebitda) ==
    IF employees # RInt(0)
    THEN size.weight = employees /\ size.factor = "Size (employees)"
    ELSE IF revenue # RInt(0)
    THEN size.weight = revenue /\ size.factor = "Size (revenue)"
    ELSE IF ebitda # RInt(0)
    THEN size.weight = ebitda /\ size.factor = "Size (EBITDA)"
    ELSE size.weight = RInt(0)

\* C23 as stated: when no size band is satisfied the size factor is the
\* partial credit of the first dimension, in the order employees, revenue,
\* EBITDA, whose credit is nonzero, tagged with that dimension, with credit
\* (value/min)*15 below the band and max(0, 15 - (value-max)/max*15) above it;
\* the factor is 0 when no dimension yields credit.
C23_PartialCreditAsStated ==
    Scored /\ NoSizeBandSatisfied =>
        FirstNonzeroCredit(result.out.factors[2],
                           StatedCredit(ScoredHeadcount, MIN_EMPLOYEES, MAX_EMPLOYEES),
                           StatedCredit(company.financials.revenue, MIN_REVENUE, MAX_REVENUE),
                           StatedCredit(company.financials.ebitda, MIN_EBITDA, MAX_EBITDA))

\* C23 as amended: the same with the credit below the band being
\* max(0, (value/min)*15), so that a negative value yields no credit.
C23_PartialCreditFlooredAtZero ==
    Scored /\ NoSizeBandSatisfied =>
        FirstNonzeroCredit(result.out.factors[2],
                           FlooredCredit(ScoredHeadcount, MIN_EMPLOYEES, MAX_EMPLOYEES),
                           FlooredCredit(company.financials.revenue, MIN_REVENUE, MAX_REVENUE),
                           FlooredCredit(company.financials.ebitda, MIN_EBITDA, MAX_EBITDA))

\* A headcount of 10 earned 10 points and kept them although the revenue
\* would have earned 12.5.
C23_Witness ==
    /\ Scored
    /\ NoSizeBandSatisfied
    /\ ScoredHeadcount = Num(10)
    /\ company.financials.revenue = Num(2500000)
    /\ result.out.factors[2].weight = RInt(10)
    /\ result.out.factors[2].factor = "Size (employees)"

-----------------------------------------------------------------------------
(* The tech-alignment factor *)

\* The distinct tech-stack entries that match the Microsoft vocabulary.
DistinctMicrosoftMatches ==
    {company.enrichment.tech_stack[i] : i \in
        {j \in 1..Len(company.enrichment.tech_stack) :
            IsMicrosoftTech(company.enrichment.tech_stack[j])}}

\* C24: the tech-alignment factor is min(25, count * 8.33) for count the number
\* of distinct matches against the 8-term vocabulary, is the full 25 points
\* from 3 distinct matches on, and is not raised by repeating an entry.
C24_TechFactorFromDistinctMatches ==
    Scored =>
        LET count == Cardinality(DistinctMicrosoftMatches)
            weight == result.out.factors[3].weight
        IN  /\ Len(microsoftKeywords) = 8
            /\ weight = RMin(RInt(25), RMul(RInt(count), Rat(833, 100)))
            /\ count >= 3 => weight = RInt(25)

-----------------------------------------------------------------------------
(* The distance resolver in one calculateInvestmentScore call *)

StoredDistance == company.investment_score.location_distance_km

\* C25: one calculateInvestmentScore call invokes the distance resolver at
\* most once, and not at all when the record carries a location_distance_km
\* (also a stored 0); the stored value is then the distance that is scored.
C25_ResolverOnlyWithoutStoredDistance ==
    Scored =>
        /\ result.resolverCalls <= 1
        /\ IsNum(StoredDistance) =>
              /\ result.resolverCalls = 0
              /\ result.fetched = NotFetched
              /\ result.out.factors[4].value = RoundedKm(StoredDistance)
              /\ result.out.factors[4].weight = RInt(calculateLocationScore(StoredDistance))

\* A record with a stored distance of 0 was scored 25 for location without
\* a call of the resolver.
C25_Witness ==
    /\ Scored
    /\ StoredDistance = Num(0)
    /\ result.resolverCalls = 0
    /\ result.out.factors[4].weight = RInt(25)

-----------------------------------------------------------------------------
(* The score of analyzeMSPLikelihood as the sum of its contributions *)

\* ratio * points for a ratio of found over total, the total floored at 1.
RatioPoints(found, total, points) ==
    Rat(found * points, IF total < 1 THEN 1 ELSE total)

\* 1.0 without a negative match, max(0.3, 1 - 0.2 * matchCount) otherwise.
StatedPenalty(matchCount) ==
    IF matchCount = 0 THEN RInt(1) ELSE RMax(Rat(3, 10), Rat(10 - 2 * matchCount, 10))

\* The five contributions named by the claim, summed.
StatedMspSum ==
    RAdd(RAdd(RAdd(RAdd(RMul(RatioPoints(Len(FoundMspKeywords(company)), Len(mspKeywords), 30),
                             StatedPenalty(NegativeMatches)),
                        RatioPoints(Len(FoundServices(company)),
                                    Len(company.enrichment.services), 25)),
                   RatioPoints(Len(FoundInfraTech(company)),
                               Len(company.enrichment.tech_stack), 20)),
              RatioPoints(DescriptionMatches(company), Len(mspDescriptionPatterns), 15)),
         IF HasItSic(company) THEN RInt(10) ELSE RInt(0))

\* C26: the score of analyzeMSPLikelihood is an integer in 0..100, the rounded
\* sum of keyword ratio * 30 * contextPenalty, service ratio * 25, vendor
\* ratio * 20, description-pattern ratio * 15 and 10 for a target industry
\* code; the penalty scales the keyword contribution only and the
\* specialized-MSP flag adds or removes no points.
C26_ScoreIsRoundedSumOfContributions ==
    Analyzed =>
        /\ result.out.score \in 0..100
        /\ result.out.score = Round0(StatedMspSum)

\* A record flagged as specialized MSP, with negative phrases in its name,
\* was scored from keyword, service and industry-code evidence.
C26_Witness ==
    /\ Analyzed
    /\ result.out.indicators[7].found
    /\ NegativeMatches > 0
    /\ Len(FoundMspKeywords(company)) > 0
    /\ HasItSic(company)
    /\ result.out.score > 10

-----------------------------------------------------------------------------
(* writeCompany on records with enrichment: the scraper, the website        *)
(* analysis, the manual enrichment update, extraction and score storage all *)
(* persist through writeCompany.                                            *)

EnrichedKeywords == {<<>>, <<"MSP", "Helpdesk">>}
EnrichedServices == {<<>>, <<"IT Support", "Cloud Backup">>}
EnrichedTechStacks == {<<>>, <<"Azure", "VMware">>}
EnrichedDescriptions == {"", "We provide managed IT services and remote monitoring"}
\* The MSP likelihood the handed-over record carries: none, or a stale one.
EnrichedLikelihoods ==
    {[score |-> Undef, confidence |-> Undef], [score |-> Num(40), confidence |-> Str("high")]}

EnrichedInput(keywords, services, techStack, description, likelihood) ==
    [BaseCompany EXCEPT !.enrichment.business_keywords = keywords,
                        !.enrichment.services = services,
                        !.enrichment.tech_stack = techStack,
                        !.enrichment.business_description = description,
                        !.enrichment.msp_likelihood_score = likelihood.score,
                        !.enrichment.msp_likelihood_confidence = likelihood.confidence]

WriteEnrichedCompany ==
    /\ \E keywords \in EnrichedKeywords, services \in EnrichedServices,
          techStack \in EnrichedTechStacks, description \in EnrichedDescriptions,
          likelihood \in EnrichedLikelihoods :
            WriteRecord(EnrichedInput(keywords, services, techStack, description, likelihood))
    /\ UNCHANGED <<now, docs>>

InitEnriched ==
    /\ now = NowStart
    /\ docs = <<>>
    /\ result = NoResult
    /\ company = BaseCompany

NextEnriched == WriteEnrichedCompany

SpecEnriched == InitEnriched /\ [][NextEnriched]_vars

\* The record carries the MSP likelihood that analyzeMSPLikelihood gives for it.
StoresOwnMspLikelihood(stored, mspAnalysis) ==
    /\ stored.enrichment.msp_likelihood_score = Num(mspAnalysis.score)
    /\ stored.enrichment.msp_likelihood_confidence = Str(mspAnalysis.confidence)

\* C27: after any sequence of writeCompany calls, every persisted record whose
\* enrichment has a non-empty keyword list, service list, tech stack or
\* description stores the score and the confidence that analyzeMSPLikelihood
\* gives for that same persisted record.
C27_PersistedMspLikelihoodIsRecomputed ==
    (\/ Len(company.enrichment.business_keywords) > 0
     \/ Len(company.enrichment.services) > 0
     \/ Len(company.enrichment.tech_stack) > 0
     \/ company.enrichment.business_description # "")
        => StoresOwnMspLikelihood(company, analyzeMSPLikelihood(company))

\* A record with nothing but a description was handed over with a stale
\* score of 40 and 'high', and stored with another score.
C27_Witness ==
    /\ WriteCalled
    /\ result.input.enrichment.msp_likelihood_score = Num(40)
    /\ result.input.enrichment.msp_likelihood_confidence = Str("high")
    /\ company = result.written
    /\ company.enrichment.business_description # ""
    /\ ~HasEnrichmentLists(company)
    /\ company.enrichment.msp_likelihood_score # Num(40)


-----------------------------------------------------------------------------
(* Storing a score: computeAndStoreScores, one company of its loop.  The    *)
(* record is scored, the score and the distance reported by the location   *)
(* factor are put on it, and the record is written.                         *)

StoreIncorporationDates == {"1970-01-01", "1972-12-30"}
StoreRevenues == {Undef, Num(2500000), Num(3000000)}
StoreTechStacks == {<<>>, <<"Linux", "Microsoft Azure", "Microsoft Azure">>}
StoreServices == {<<>>, <<"IT Support", "Cloud Backup">>}

StoreCompanies ==
    {[BaseCompany EXCEPT
        !.date_of_incorporation = d,
        !.financials.revenue = r,
        !.enrichment.tech_stack = ts,
        !.enrichment.services = sv] :
      d \in StoreIncorporationDates, r \in StoreRevenues, ts \in StoreTechStacks,
      sv \in StoreServices}

\* What the geocoder answers: no answer, London itself, 24.997 km, 25.041 km
\* and 25.097 km.
StoreFetches ==
    {NetworkError, Response(TRUE, Place("51.5074", "-0.1278")),
     Response(TRUE, Place("51.7322", "-0.1278")), Response(TRUE, Place("51.7326", "-0.1278")),
     Response(TRUE, Place("51.7331", "-0.1278"))}

InitStore ==
    /\ now = NowStart
    /\ company \in StoreCompanies
    /\ docs = <<>>
    /\ result = NoResult

\* scoreResult.factors.find(f => f.factor.includes('Location') ||
\* f.factor.includes('distance')): the first such factor, if any.
FindLocationFactor(factors) ==
    LET found == {i \in 1..Len(factors) :
                     includes(factors[i].factor, "Location") \/
                     includes(factors[i].factor, "distance")}
    IN  IF found = {} THEN Undef
        ELSE factors[CHOOSE i \in found : \A j \in found : i <= j]

\* A distance of the record's unit (metres) from a factor value in km.
KmToMetres(value) == (value.n * 1000) \div value.d

\* locationFactor && locationFactor.value > 0 ? locationFactor.value : undefined
LocationDistanceOf(locationFactor) ==
    IF locationFactor # Undef /\ RLt(RInt(0), locationFactor.value)
    THEN Num(KmToMetres(locationFactor.value))
    ELSE Undef

\* company.investment_score = { score, ..., location_distance_km }
WithInvestmentScore(c, scoreResult) ==
    [c EXCEPT !.investment_score =
        [score |-> Num(scoreResult.score),
         location_distance_km |-> LocationDistanceOf(FindLocationFactor(scoreResult.factors))]]

StoreResult(fetched, geo, scoreResult, out) ==
    [fn |-> "computeAndStoreScores", at |-> now, before |-> company, fetched |-> fetched,
     geo |-> geo, out |-> scoreResult, written |-> out]

\* The try block for one company: a writeCompany that throws is counted as
\* an error and leaves the stored record as it was.
StoreScore(fetched, geo, scoreResult, scored) ==
    IF SchemaParseSucceeds(scored)
    THEN /\ company' = writeCompany(scored)
         /\ result' = StoreResult(fetched, geo, scoreResult, "written")
    ELSE /\ company' = company
         /\ result' = StoreResult(fetched, geo, scoreResult, "error")

ScoreAndStore(fetched, geo, scoreResult) ==
    StoreScore(fetched, geo, scoreResult, WithInvestmentScore(company, scoreResult))

ScoreAndStoreResolved(fetched, geo) ==
    ScoreAndStore(fetched, geo, calculateInvestmentScore(company, now, geo))

ComputeAndStoreScores ==
    /\ IF HasStoredDistance(company)
       THEN ScoreAndStore(NotFetched, Null, calculateInvestmentScore(company, now, Null))
       ELSE \E fetched \in StoreFetches :
                ScoreAndStoreResolved(fetched,
                    getDistanceFromLondon(company.registered_address,
                                          company.registered_address_structured, fetched))
    /\ UNCHANGED <<now, docs>>

NextStore == ComputeAndStoreScores \/ Tick

SpecStore == InitStore /\ [][NextStore]_vars

ScoreStored == result.fn = "computeAndStoreScores" /\ result.written = "written"

\* The score of the persisted record at the time of the storing call, the
\* resolver answering as it did then.
Rescored == calculateInvestmentScore(company, result.at, result.geo)

\* C28: after computeAndStoreScores has persisted the score of a record with a
\* resolved distance, scoring the persisted record again with the clock held
\* fixed gives the same location points and the same total score as stored.
C28_StoredScoreIsStable ==
    (ScoreStored /\ IsNum(result.geo)) =>
        /\ Rescored.factors[4].weight = result.out.factors[4].weight
        /\ Num(Rescored.score) = company.investment_score.score


-----------------------------------------------------------------------------
(* The screening functions on one record: matchesThesisCriteria,           *)
(* getRedFlags and isHighValueTarget.                                       *)

\* getRedFlags(company): the flags in the order they are pushed.
getRedFlags(c) ==
    (IF c.has_been_liquidated THEN <<"Company has been liquidated">> ELSE <<>>)
    \o (IF c.insolvency # Undef /\ c.insolvency.has_insolvency_history
        THEN <<"Has insolvency history">> ELSE <<>>)
    \o (IF c.insolvency # Undef /\ c.insolvency.cases > 0
        THEN <<"Has " \o ToString(c.insolvency.cases) \o " insolvency case(s)">> ELSE <<>>)
    \o (IF c.charges # Undef /\ Truthy(c.charges.unsatisfied_count)
           /\ c.charges.unsatisfied_count.v > 0
        THEN <<ToString(c.charges.unsatisfied_count.v) \o " unsatisfied charge(s)">>
        ELSE <<>>)
    \o (IF c.accounts # Undef /\ c.accounts.next_accounts_overdue
        THEN <<"Accounts are overdue">> ELSE <<>>)
    \o (IF c.company_status # "active"
        THEN <<"Company status: " \o c.company_status>> ELSE <<>>)

\* The insolvency object of a record: absent, or the history flag and the
\* number of cases.
ScreenInsolvencies ==
    {Undef, [has_insolvency_history |-> TRUE, cases |-> 1],
     [has_insolvency_history |-> TRUE, cases |-> 0],
     [has_insolvency_history |-> FALSE, cases |-> 0]}
ScreenCharges == {Undef, [unsatisfied_count |-> Num(0)], [unsatisfied_count |-> Num(2)]}
ScreenAccounts == {Undef, [next_accounts_overdue |-> TRUE]}
ScreenStatuses == {"active", "dissolved"}
ScreenSicCodes == {<<>>, <<"62090 - Other information technology service activities">>}
ScreenRevenues == {Undef, Num(3000000)}

ScreenCompanies ==
    {[BaseCompany EXCEPT
        !.company_status = st,
        !.has_insolvency_history = ins,
        !.has_been_liquidated = liq,
        !.insolvency = insolvency,
        !.charges = ch,
        !.accounts = acc,
        !.sic_codes = sic,
        !.financials.revenue = r] :
      st \in ScreenStatuses, ins \in BOOLEAN, liq \in BOOLEAN,
      insolvency \in ScreenInsolvencies, ch \in ScreenCharges, acc \in ScreenAccounts,
      sic \in ScreenSicCodes, r \in ScreenRevenues}

InitScreen ==
    /\ now = NowStart
    /\ company \in ScreenCompanies
    /\ docs = <<>>
    /\ result = NoResult

GetRedFlags ==
    /\ result' = [fn |-> "getRedFlags", at |-> now, out |-> getRedFlags(company)]
    /\ UNCHANGED <<now, company, docs>>

NextScreen == MatchesThesisCriteria \/ GetRedFlags \/ IsHighValueTarget \/ Tick

SpecScreen == InitScreen /\ [][NextScreen]_vars

InsolvencyFlags == {"Company has been liquidated", "Has insolvency history"}

FlagsOf(flags) == {flags[i] : i \in 1..Len(flags)}

\* C29: a company that matchesThesisCriteria reports as matching has no
\* insolvency or liquidation red flag in getRedFlags and is not rejected by
\* the insolvency check of isHighValueTarget, whichever of the record's
\* insolvency flags are set.
C29_ScreeningAgreesOnInsolvency ==
    matchesThesisCriteria(company, now).matches =>
        /\ result.fn = "getRedFlags" => FlagsOf(result.out) \cap InsolvencyFlags = {}
        /\ result.fn = "isHighValueTarget" =>
              /\ ~HasRedFlag(company)
              /\ result.out = (hasFinancials(company) \/ hasEnrichment(company))


-----------------------------------------------------------------------------
(* retryFailedCompanies(companyNumbers, csvPath): each company number is    *)
(* processed in a loop of attempts.  The state of the run is kept in        *)
(* result: the numbers given, the position in them, the loop's retries, the *)
(* counters, and for every number its attempts and the errors a retry       *)
(* followed.  The delays between the requests are not modelled.             *)

maxRetries == 3

MaxCompanyNumbers == 2

\* Company numbers handed to the run (the repository's own examples).
RetryCompanyNumbers == {"04298949", "14897055"}

RetryInputs ==
    {numbers \in UNION {[1..n -> RetryCompanyNumbers] : n \in 1..MaxCompanyNumbers} : TRUE}

\* The errors the scraper raises for a response other than 404
\* (CompaniesHouseScraper.getCompanyProfile).
RateLimitError == "Companies House API error: 429 - Too Many Requests"
ServerError == "Companies House API error: 500 - Internal Server Error"

\* A file-system error of writeCompany; Node names the file in the message.
WriteError(companyNumber) ==
    "EACCES: permission denied, open 'data/companies/" \o companyNumber \o ".json'"

\* What one attempt meets: the profile request fails, finds nothing, or
\* returns; then validation fails, a later step throws, or the record is saved.
AttemptOutcomes(companyNumber) ==
    {[kind |-> "profile error", message |-> RateLimitError],
     [kind |-> "profile error", message |-> ServerError],
     [kind |-> "not found", message |-> ""],
     [kind |-> "invalid", message |-> ""],
     [kind |-> "error", message |-> RateLimitError],
     [kind |-> "error", message |-> WriteError(companyNumber)],
     [kind |-> "saved", message |-> ""]}

RetryStart(companyNumbers) ==
    [fn |-> "retryFailedCompanies", companyNumbers |-> companyNumbers, index |-> 1,
     retries |-> 0, successCount |-> 0, failCount |-> 0,
     attempts |-> [i \in 1..Len(companyNumbers) |-> 0],
     counted |-> [i \in 1..Len(companyNumbers) |-> 0],
     retriedAfter |-> {}]

InitRetry ==
    /\ now = NowStart
    /\ company = BaseCompany
    /\ docs = <<>>
    /\ result \in {RetryStart(numbers) : numbers \in RetryInputs}

\* retries < maxRetries
RetryAllowed(retries) == retries < maxRetries

\* error.message?.includes('429') && retries < maxRetries
ShouldRetry(run, message) == includes(message, "429") /\ RetryAllowed(run.retries)

\* The for loop moves on: the next number starts with retries = 0.
NextCompanyNumber(run) == [run EXCEPT !.index = @ + 1, !.retries = 0]

\* while (retries <= maxRetries && !success): the test before the next pass;
\* the loop is left without a count when it fails.
WhileTest(run) == IF run.retries <= maxRetries THEN run ELSE NextCompanyNumber(run)

\* retries++; continue
RetryAfter(run, message) ==
    WhileTest([run EXCEPT !.retries = @ + 1, !.retriedAfter = @ \cup {message}])

\* failCount++; break
Failed(run) ==
    NextCompanyNumber([run EXCEPT !.failCount = @ + 1, !.counted[run.index] = @ + 1])

\* successCount++; success = true
Succeeded(run) ==
    NextCompanyNumber([run EXCEPT !.successCount = @ + 1, !.counted[run.index] = @ + 1])

\* The outer catch.
CatchAttemptError(run, message) ==
    IF ShouldRetry(run, message) THEN RetryAfter(run, message) ELSE Failed(run)

\* The catch around getCompanyProfile: it retries or throws the error on.
CatchProfileError(run, message) ==
    IF ShouldRetry(run, message) THEN RetryAfter(run, message)
    ELSE CatchAttemptError(run, message)

\* One pass of the while loop for the current company number.
AfterAttempt(run, outcome) ==
    CASE outcome.kind = "profile error" -> CatchProfileError(run, outcome.message)
      [] outcome.kind = "not found" -> Failed(run)
      [] outcome.kind = "invalid" -> Failed(run)
      [] outcome.kind = "error" -> CatchAttemptError(run, outcome.message)
      [] outcome.kind = "saved" -> Succeeded(run)

RetryRunning ==
    result.fn = "retryFailedCompanies" /\ result.index <= Len(result.companyNumbers)

\* The body of the while loop, once.
Attempt ==
    /\ RetryRunning
    /\ \E outcome \in AttemptOutcomes(result.companyNumbers[result.index]) :
          /\ result' = AfterAttempt([result EXCEPT !.attempts[result.index] = @ + 1], outcome)
          /\ company' = IF outcome.kind = "saved"
                        THEN writeCompany([BaseCompany EXCEPT
                                 !.company_number = result.companyNumbers[result.index]])
                        ELSE company
    /\ UNCHANGED <<now, docs>>

NextRetry == Attempt

\* The run is not suspended for ever: every awaited request and delay settles.
SpecRetry == InitRetry /\ [][NextRetry]_vars /\ WF_vars(NextRetry)

RetryDone ==
    result.fn = "retryFailedCompanies" /\ result.index = Len(result.companyNumbers) + 1

\* A retry follows rate-limit errors only.
RetriedAfterRateLimitOnly == result.retriedAfter \subseteq {RateLimitError}

AttemptsBounded ==
    \A i \in 1..Len(result.companyNumbers) : result.attempts[i] <= maxRetries + 1

\* Every company number that has been dealt with is counted once, the others
\* not yet.
CountedOnce ==
    /\ \A i \in 1..Len(result.companyNumbers) :
          result.counted[i] = IF i < result.index THEN 1 ELSE 0
    /\ result.successCount + result.failCount = result.index - 1

\* C30: retryFailedCompanies terminates; for each company number it makes at
\* most 4 attempts, retries only after a 429 rate-limit error, and counts the
\* company exactly once, so that successCount + failCount is the number of
\* company numbers given.
C30_RetryTerminatesAndCountsOnce ==
    /\ [](AttemptsBounded /\ CountedOnce /\ RetriedAfterRateLimitOnly)
    /\ <>RetryDone

====
